---------------------------- MODULE Spec2Model ----------------------------
(***************************************************************************)
(* The Flux toolchain: source text -> Lexer -> Parser -> Codegen -> VM.     *)
(*                                                                         *)
(* The state machine follows main(): the source is lexed (Lexer::lex), the  *)
(* token sequence is parsed (Parser::parse), the statement list is         *)
(* compiled (Codegen::compile) and the instruction array is executed by    *)
(* VM::run, one dispatched instruction per step.  The short texts are      *)
(* lexed from their characters; the larger programs enter as the token     *)
(* sequence lex returns for them.                                          *)
(*                                                                         *)
(* Conventions: positions, instruction offsets and list indices are        *)
(* 0-based as in the source; a TLA+ sequence s holds element i at s[i+1].  *)
(***************************************************************************)
EXTENDS Integers, Sequences, FiniteSets, TLC

VARIABLES
    source,      \* the text main read from the file, as a sequence of characters
                 \* (empty in the runs that start from a token sequence)
    tokens,      \* Parser.tokens: the lexer's output handed to Parser::new
    pc,          \* position in main()/VM::run: "lex","parse","codegen","run","post","done",
                 \* "failed","panicked"
    exit,        \* the exit status of the process: None while it runs
    program,     \* the Vec<Stmt> returned by Parser::parse
    perr,        \* the FluxError returned by Lexer::lex or Parser::parse, or NoError
    code,        \* Codegen.code
    functions,   \* Codegen.functions (name -> entry offset)
    ip,          \* VM::run local ip
    steps,       \* VM::run local steps
    halted,      \* how the loop of VM::run was left: "no" while it runs, "return" (break at
                 \* a Return with an empty call stack), "end" (ip reached code.len())
                 \* or "budget" (steps reached max_steps with code left to run)
    stack,       \* VM.stack (operand stack, top is the last element)
    globals,     \* VM.globals (name -> Value)
    call_stack,  \* VM.call_stack (return addresses, top is the last element)
    reported,    \* the argument lists printed by report, one entry per call
    diag,        \* TRUE once "Execution stopped: maximum steps exceeded" is printed
    starts,      \* offset at which the code of each top-level statement begins
    topSeen      \* history: index of the last top-level statement whose code was begun

vars == <<source, exit, tokens, pc, program, perr, code, functions, ip, steps, halted, stack,
          globals, call_stack, reported, diag, starts, topSeen>>

-----------------------------------------------------------------------------
(* Tokens (lexer.rs, enum Token).  A token is a record with its variant in  *)
(* field k and the payload, when there is one, in n / s / num,den.          *)

Tok(k) == [k |-> k]
TInt(n) == [k |-> "Int", n |-> n]
TIdent(s) == [k |-> "Ident", s |-> s]
TStr(s) == [k |-> "Str", s |-> s]
TFloat(num, den) == [k |-> "Float", num |-> num, den |-> den]
TEOF == Tok("EOF")

-----------------------------------------------------------------------------
(* Lexer (lexer.rs).  The input is a sequence of characters, each a string  *)
(* of length one; pos is Lexer.pos.  Lexer_lex returns LOk(tokens) or       *)
(* LErr(..).  The sources of this model are short, so no integer literal    *)
(* leaves i64 and the "Invalid integer" error does not arise.               *)

LOk(toks) == [ok |-> TRUE, tokens |-> toks]
\* FluxError::Lex(msg); `at` records the position of the rejected character
LErr(msg, at) == [ok |-> FALSE, kind |-> "Lex", msg |-> msg, at |-> at]

RECURSIVE Concat(_)
\* the string made of the characters cs
Concat(cs) == IF cs = <<>> THEN "" ELSE Head(cs) \o Concat(Tail(cs))

\* the byte 0 that cur and peek return past the end of the input
NUL == ""

DigitChars == <<"0", "1", "2", "3", "4", "5", "6", "7", "8", "9">>
Digits == {DigitChars[i] : i \in DOMAIN DigitChars}
LowerChars == {"a", "b", "c", "d", "e", "f", "g", "h", "i", "j", "k", "l", "m",
               "n", "o", "p", "q", "r", "s", "t", "u", "v", "w", "x", "y", "z"}
UpperChars == {"A", "B", "C", "D", "E", "F", "G", "H", "I", "J", "K", "L", "M",
               "N", "O", "P", "Q", "R", "S", "T", "U", "V", "W", "X", "Y", "Z"}
WordStart == LowerChars \cup UpperChars \cup {"_"}
WordChars == WordStart \cup Digits
Blanks == {" ", "\t", "\n", "\r"}

Lexer_cur(input, pos) == IF pos < Len(input) THEN input[pos + 1] ELSE NUL
Lexer_peek(input, pos) == IF pos + 1 < Len(input) THEN input[pos + 2] ELSE NUL

RECURSIVE Lexer_while(_, _, _)
\* `while matches!(self.cur(), class) { self.advance(); }`: the position reached
Lexer_while(input, pos, class) ==
    IF Lexer_cur(input, pos) \in class THEN Lexer_while(input, pos + 1, class) ELSE pos

RECURSIVE Lexer_until(_, _, _)
\* `while self.pos < self.input.len() && self.cur() != stop { self.advance(); }`
Lexer_until(input, pos, stop) ==
    IF pos < Len(input) /\ Lexer_cur(input, pos) # stop
    THEN Lexer_until(input, pos + 1, stop)
    ELSE pos

Lexer_skip_line_comment(input, pos) == Lexer_until(input, pos, "\n")

RECURSIVE Lexer_skip_whitespace(_, _)
Lexer_skip_whitespace(input, pos) ==
    IF pos < Len(input)
    THEN CASE Lexer_cur(input, pos) \in Blanks -> Lexer_skip_whitespace(input, pos + 1)
           [] Lexer_cur(input, pos) = "/" /\ Lexer_peek(input, pos) = "/" ->
                Lexer_skip_whitespace(input, Lexer_skip_line_comment(input, pos))
           [] OTHER -> pos
    ELSE pos

\* the characters input[from..to)
Lexer_slice(input, from, to) == SubSeq(input, from + 1, to)

Lexer_digit(c) == CHOOSE d \in 0..9 : DigitChars[d + 1] = c

RECURSIVE Lexer_parse_int(_)
\* str::parse::<i64> on a string of decimal digits
Lexer_parse_int(cs) ==
    IF cs = <<>> THEN 0
    ELSE 10 * Lexer_parse_int(SubSeq(cs, 1, Len(cs) - 1)) + Lexer_digit(cs[Len(cs)])

RECURSIVE Pow10(_)
Pow10(n) == IF n = 0 THEN 1 ELSE 10 * Pow10(n - 1)

\* str::parse::<f64> on digits "." digits, as the rational it denotes: the
\* text is input[start..to) and its "." is at position dot
Lexer_parse_float(input, start, dot, to) ==
    TFloat(Lexer_parse_int(Lexer_slice(input, start, dot) \o Lexer_slice(input, dot + 1, to)),
           Pow10(to - dot - 1))

\* the keyword table of Lexer::lex
Lexer_word_token(word) ==
    CASE word = "constant" -> Tok("Constant")
      [] word = "mutable" -> Tok("Mutable")
      [] word = "assign" -> Tok("Assign")
      [] word = "yield" -> Tok("Yield")
      [] word = "course" -> Tok("Course")
      [] word = "purpose" -> Tok("Purpose")
      [] word = "when" -> Tok("When")
      [] word = "then" -> Tok("Then")
      [] word = "persist" -> Tok("Persist")
      [] word = "differently" -> Tok("Differently")
      [] word = "otherwise" -> Tok("Otherwise")
      [] word = "iterate" -> Tok("Iterate")
      [] word = "across" -> Tok("Across")
      [] word = "to" -> Tok("To")
      [] word = "and" -> Tok("And")
      [] word = "or" -> Tok("Or")
      [] word = "not" -> Tok("Not")
      [] word = "true" -> Tok("True")
      [] word = "false" -> Tok("False")
      [] word = "string" -> Tok("StringType")
      [] word = "number" -> Tok("NumberType")
      [] word = "float" -> Tok("FloatType")
      [] word = "boolean" -> Tok("BooleanType")
      [] word = "void" -> Tok("Void")
      [] OTHER -> TIdent(word)

\* the characters that are a token by themselves
SingleChars == {"+", "-", "/", "%", "[", "]", "(", ")", "{", "}", ";", ","}
Lexer_single_token(c) ==
    CASE c = "+" -> Tok("Plus")
      [] c = "-" -> Tok("Minus")
      [] c = "/" -> Tok("Slash")
      [] c = "%" -> Tok("Percent")
      [] c = "[" -> Tok("LBracket")
      [] c = "]" -> Tok("RBracket")
      [] c = "(" -> Tok("LParen")
      [] c = ")" -> Tok("RParen")
      [] c = "{" -> Tok("LBrace")
      [] c = "}" -> Tok("RBrace")
      [] c = ";" -> Tok("Semicolon")
      [] c = "," -> Tok("Comma")

\* the characters that begin a one- or two-character operator, with the
\* second character, the token of the pair and the token of the first alone
PairChars == {"*", "=", "!", "<", ">"}
Lexer_pair(c) ==
    CASE c = "*" -> [second |-> "*", both |-> Tok("Power"), alone |-> Tok("Star")]
      [] c = "=" -> [second |-> "=", both |-> Tok("EqEq"), alone |-> Tok("Eq")]
      [] c = "!" -> [second |-> "=", both |-> Tok("BangEq"), alone |-> Tok("Not")]
      [] c = "<" -> [second |-> "=", both |-> Tok("LtEq"), alone |-> Tok("Lt")]
      [] c = ">" -> [second |-> "=", both |-> Tok("GtEq"), alone |-> Tok("Gt")]

RECURSIVE Lexer_loop(_, _, _)

\* a number that starts at start and whose leading digits end at p
Lexer_number(input, start, p, toks) ==
    IF Lexer_cur(input, p) = "." /\ Lexer_peek(input, p) \in Digits
    THEN Lexer_loop(input, Lexer_while(input, p + 1, Digits),
                    Append(toks, Lexer_parse_float(input, start, p,
                                                   Lexer_while(input, p + 1, Digits))))
    ELSE Lexer_loop(input, p, Append(toks, TInt(Lexer_parse_int(Lexer_slice(input, start, p)))))

\* a string literal that must be closed
Lexer_string_closed(input, start, p, toks) ==
    IF Lexer_cur(input, p) = "\""
    THEN Lexer_loop(input, p + 1, Append(toks, TStr(Concat(Lexer_slice(input, start, p)))))
    ELSE LErr("Unterminated string", p)

\* a string literal whose text starts at start and ends before p; the
\* closing quote is consumed when there is one
Lexer_string(input, start, p, toks) ==
    Lexer_loop(input, IF Lexer_cur(input, p) = "\"" THEN p + 1 ELSE p,
               Append(toks, TStr(Concat(Lexer_slice(input, start, p)))))

\* one iteration of the loop of Lexer::lex after skip_whitespace left pos
Lexer_token(input, pos, toks) ==
    IF pos >= Len(input) THEN LOk(Append(toks, TEOF))
    ELSE CASE Lexer_cur(input, pos) \in Digits ->
                Lexer_number(input, pos, Lexer_while(input, pos, Digits), toks)
           [] Lexer_cur(input, pos) = "\"" ->
                Lexer_string(input, pos + 1, Lexer_until(input, pos + 1, "\""), toks)
           [] Lexer_cur(input, pos) \in WordStart ->
                Lexer_loop(input, Lexer_while(input, pos, WordChars),
                           Append(toks, Lexer_word_token(
                               Concat(Lexer_slice(input, pos,
                                                  Lexer_while(input, pos, WordChars))))))
           [] Lexer_cur(input, pos) \in PairChars ->
                IF Lexer_cur(input, pos + 1) = Lexer_pair(Lexer_cur(input, pos)).second
                THEN Lexer_loop(input, pos + 2,
                                Append(toks, Lexer_pair(Lexer_cur(input, pos)).both))
                ELSE Lexer_loop(input, pos + 1,
                                Append(toks, Lexer_pair(Lexer_cur(input, pos)).alone))
           [] Lexer_cur(input, pos) \in SingleChars ->
                Lexer_loop(input, pos + 1,
                           Append(toks, Lexer_single_token(Lexer_cur(input, pos))))
           [] Lexer_cur(input, pos) = "." -> LErr("Invalid token: single '.'", pos)
           [] OTHER ->
                LErr("Unexpected character: '" \o Lexer_cur(input, pos) \o "'", pos)

\* `while self.pos < self.input.len() { .. }`, then tokens.push(Token::EOF)
Lexer_loop(input, pos, toks) ==
    IF pos < Len(input)
    THEN Lexer_token(input, Lexer_skip_whitespace(input, pos), toks)
    ELSE LOk(Append(toks, TEOF))

Lexer_lex(input) == Lexer_loop(input, 0, <<>>)

-----------------------------------------------------------------------------
(* AST (ast.rs).  Option<T> is None or Some(x).                             *)

None == [opt |-> "None"]
Some(x) == [opt |-> "Some", x |-> x]

EInt(n) == [e |-> "Int", n |-> n]
EFloat(num, den) == [e |-> "Float", num |-> num, den |-> den]
EStr(s) == [e |-> "Str", s |-> s]
EBool(b) == [e |-> "Bool", b |-> b]
EIdent(name) == [e |-> "Ident", name |-> name]
EList(elems) == [e |-> "List", elems |-> elems]
EBinary(left, op, right) == [e |-> "Binary", left |-> left, op |-> op, right |-> right]
EUnary(op, expr) == [e |-> "Unary", op |-> op, expr |-> expr]
ECall(callee, args) == [e |-> "Call", callee |-> callee, args |-> args]
EIndex(target, index, value) == [e |-> "Index", target |-> target, index |-> index, value |-> value]

SConst(name, value) == [s |-> "Const", name |-> name, value |-> value]
SMutable(name, init) == [s |-> "Mutable", name |-> name, init |-> init]
SAssign(name, value) == [s |-> "Assign", name |-> name, value |-> value]
SExpr(expr) == [s |-> "Expr", expr |-> expr]
SReturn(val) == [s |-> "Return", val |-> val]
SCourse(name, params, body) == [s |-> "Course", name |-> name, params |-> params, body |-> body]
SPurpose(name, params, body) == [s |-> "Purpose", name |-> name, params |-> params, body |-> body]
SPersist(cond, body) == [s |-> "Persist", cond |-> cond, body |-> body]
SWhen(cond, then, elifs, otherwise) ==
    [s |-> "When", cond |-> cond, then |-> then, elifs |-> elifs, otherwise |-> otherwise]
SIterate(var, iterable, body) == [s |-> "Iterate", var |-> var, iterable |-> iterable, body |-> body]
SBlock(body) == [s |-> "Block", body |-> body]

-----------------------------------------------------------------------------
(* Parser (parser.rs).  Every parsing operator takes the token sequence and *)
(* the position and returns a PResult: POk(v, pos) with the position after  *)
(* the construct, or PErr(..), which the callers propagate unchanged (`?`). *)

POk(v, pos) == [ok |-> TRUE, v |-> v, pos |-> pos]
PErr(msg, expected, found, at) ==
    [ok |-> FALSE, kind |-> "Parse", msg |-> msg, expected |-> expected, found |-> found, at |-> at]

Parser_cur(toks, pos) == IF pos < Len(toks) THEN toks[pos + 1] ELSE TEOF

Parser_advance(toks, pos) == IF pos < Len(toks) THEN pos + 1 ELSE pos

\* tokens.get(pos): the token, or the EOF-free "nothing" record past the end
Parser_get(toks, pos) == IF pos < Len(toks) THEN toks[pos + 1] ELSE Tok("<none>")

Parser_eat(toks, pos, expected) ==
    IF Parser_cur(toks, pos).k = expected
    THEN POk(expected, Parser_advance(toks, pos))
    ELSE PErr("Expected", expected, Parser_cur(toks, pos).k, pos)

Parser_ident(toks, pos) ==
    IF Parser_cur(toks, pos).k = "Ident"
    THEN POk(Parser_cur(toks, pos).s, Parser_advance(toks, pos))
    ELSE PErr("Expected identifier", "Ident", Parser_cur(toks, pos).k, pos)

NoBp == [l |-> -1, r |-> -1]

Parser_bp_rightassoc_power(t) ==
    CASE t.k = "Or" -> [l |-> 1, r |-> 2]
      [] t.k = "And" -> [l |-> 3, r |-> 4]
      [] t.k \in {"EqEq", "BangEq"} -> [l |-> 5, r |-> 6]
      [] t.k \in {"Lt", "Gt", "LtEq", "GtEq"} -> [l |-> 7, r |-> 8]
      [] t.k \in {"Plus", "Minus"} -> [l |-> 9, r |-> 10]
      [] t.k \in {"Star", "Slash", "Percent"} -> [l |-> 11, r |-> 12]
      [] t.k = "Power" -> [l |-> 14, r |-> 13]
      [] t.k = "To" -> [l |-> 15, r |-> 16]
      [] OTHER -> NoBp

\* binding powers in which `to` binds more loosely than every other operator
Parser_bp_loose_to(t) ==
    CASE t.k = "To" -> [l |-> 1, r |-> 2]
      [] t.k = "Or" -> [l |-> 3, r |-> 4]
      [] t.k = "And" -> [l |-> 5, r |-> 6]
      [] t.k \in {"EqEq", "BangEq"} -> [l |-> 7, r |-> 8]
      [] t.k \in {"Lt", "Gt", "LtEq", "GtEq"} -> [l |-> 9, r |-> 10]
      [] t.k \in {"Plus", "Minus"} -> [l |-> 11, r |-> 12]
      [] t.k \in {"Star", "Slash", "Percent"} -> [l |-> 13, r |-> 14]
      [] t.k = "Power" -> [l |-> 15, r |-> 16]
      [] OTHER -> NoBp

\* None is NoBp
Parser_bp(t) ==
    CASE t.k = "Or" -> [l |-> 1, r |-> 2]
      [] t.k = "And" -> [l |-> 3, r |-> 4]
      [] t.k \in {"EqEq", "BangEq"} -> [l |-> 5, r |-> 6]
      [] t.k \in {"Lt", "Gt", "LtEq", "GtEq"} -> [l |-> 7, r |-> 8]
      [] t.k \in {"Plus", "Minus"} -> [l |-> 9, r |-> 10]
      [] t.k \in {"Star", "Slash", "Percent"} -> [l |-> 11, r |-> 12]
      [] t.k = "Power" -> [l |-> 13, r |-> 14]
      [] t.k = "To" -> [l |-> 15, r |-> 16]
      [] OTHER -> NoBp

\* a scan that accepts one bracket group at most
Parser_assignment_scan_once(toks, pos) ==
    IF Parser_get(toks, pos).k = "LBracket"
    THEN IF Parser_get(toks, pos + 1).k \notin {"Int", "Ident"} THEN FALSE
         ELSE IF Parser_get(toks, pos + 2).k # "RBracket" THEN FALSE
         ELSE Parser_get(toks, pos + 3).k = "Eq"
    ELSE Parser_get(toks, pos).k = "Eq"

RECURSIVE Parser_assignment_scan(_, _)
\* the while loop of is_assignment_target, from position pos
Parser_assignment_scan(toks, pos) ==
    IF Parser_get(toks, pos).k = "LBracket"
    THEN IF Parser_get(toks, pos + 1).k \notin {"Int", "Ident"} THEN FALSE
         ELSE IF Parser_get(toks, pos + 2).k # "RBracket" THEN FALSE
         ELSE Parser_assignment_scan(toks, pos + 3)
    ELSE Parser_get(toks, pos).k = "Eq"

Parser_is_assignment_target(toks, pos) ==
    IF Parser_get(toks, pos).k # "Ident" THEN FALSE
    ELSE Parser_assignment_scan(toks, pos + 1)

\* the `?` operator: an Err is returned to the caller as it is, an Ok is
\* handed to the rest of the function
Try(r, K(_)) == IF r.ok THEN K(r) ELSE r

RECURSIVE Parser_stmt(_, _), Parser_stmts_until(_, _, _, _), Parser_block(_, _),
          Parser_prec(_, _, _), Parser_prec_loop(_, _, _, _),
          Parser_index_expr(_, _), Parser_index_loop(_, _, _),
          Parser_atom(_, _), Parser_expr_list(_, _, _), Parser_list(_, _),
          Parser_elifs(_, _, _), Parser_params_loop(_, _, _)

Parser_expr(toks, pos) == Parser_prec(toks, pos, 0)

\* `while let Some((l, r)) = self.bp(self.cur())` of prec, with `left` parsed so far
Parser_prec_loop(toks, pos, min, left) ==
    IF Parser_bp(Parser_cur(toks, pos)) = NoBp \/ Parser_bp(Parser_cur(toks, pos)).l < min
    THEN POk(left, pos)
    ELSE Try(Parser_prec(toks, Parser_advance(toks, pos), Parser_bp(Parser_cur(toks, pos)).r),
             LAMBDA right :
                 Parser_prec_loop(toks, right.pos, min,
                                  EBinary(left, Parser_cur(toks, pos), right.v)))

Parser_prec(toks, pos, min) ==
    Try(Parser_index_expr(toks, pos),
        LAMBDA left : Parser_prec_loop(toks, left.pos, min, left.v))

\* `while matches!(self.cur(), LBracket)` of index_expr, with `expr` parsed so far
Parser_index_loop(toks, pos, expr) ==
    IF Parser_cur(toks, pos).k # "LBracket" THEN POk(expr, pos)
    ELSE Try(Parser_expr(toks, Parser_advance(toks, pos)), LAMBDA index :
         Try(Parser_eat(toks, index.pos, "RBracket"), LAMBDA rb :
         Parser_index_loop(toks, rb.pos, EIndex(expr, index.v, None))))

Parser_index_expr(toks, pos) ==
    Try(Parser_atom(toks, pos), LAMBDA a : Parser_index_loop(toks, a.pos, a.v))

\* first expression, then `while matches!(self.cur(), Comma)`: the argument
\* list of a call and the element list of a list literal
Parser_expr_list(toks, pos, acc) ==
    Try(Parser_expr(toks, pos), LAMBDA x :
        IF Parser_cur(toks, x.pos).k = "Comma"
        THEN Parser_expr_list(toks, Parser_advance(toks, x.pos), Append(acc, x.v))
        ELSE POk(Append(acc, x.v), x.pos))

\* the comma-separated expressions up to the closing token, which is not consumed
Parser_expr_list_until(toks, pos, close) ==
    IF Parser_cur(toks, pos).k # close
    THEN Parser_expr_list(toks, pos, <<>>)
    ELSE POk(<<>>, pos)

Parser_list(toks, pos) ==
    Try(Parser_eat(toks, pos, "LBracket"), LAMBDA lb :
    Try(Parser_expr_list_until(toks, lb.pos, "RBracket"), LAMBDA elements :
    Try(Parser_eat(toks, elements.pos, "RBracket"), LAMBDA rb :
    POk(EList(elements.v), rb.pos))))

\* Token::Ident(name) of atom: a call when `(` follows, else the identifier
Parser_atom_ident(toks, pos, n) ==
    IF Parser_cur(toks, pos).k = "LParen"
    THEN Try(Parser_eat(toks, pos, "LParen"), LAMBDA lp :
         Try(Parser_expr_list_until(toks, lp.pos, "RParen"), LAMBDA args :
         Try(Parser_eat(toks, args.pos, "RParen"), LAMBDA rp :
         POk(ECall(n, args.v), rp.pos))))
    ELSE POk(EIdent(n), pos)

\* a unary operator that takes only the operand next to it
Parser_unary_tight(toks, pos) ==
    Try(Parser_index_expr(toks, Parser_advance(toks, pos)), LAMBDA x :
    POk(EUnary(Parser_cur(toks, pos), x.v), x.pos))

\* the Minus and Not arms of atom: advance, then `self.prec(9)`
Parser_unary(toks, pos) ==
    Try(Parser_prec(toks, Parser_advance(toks, pos), 9), LAMBDA x :
    POk(EUnary(Parser_cur(toks, pos), x.v), x.pos))

Parser_atom(toks, pos) ==
    CASE Parser_cur(toks, pos).k = "Int" ->
              POk(EInt(Parser_cur(toks, pos).n), Parser_advance(toks, pos))
      [] Parser_cur(toks, pos).k = "Float" ->
              POk(EFloat(Parser_cur(toks, pos).num, Parser_cur(toks, pos).den),
                  Parser_advance(toks, pos))
      [] Parser_cur(toks, pos).k = "Str" ->
              POk(EStr(Parser_cur(toks, pos).s), Parser_advance(toks, pos))
      [] Parser_cur(toks, pos).k = "True" -> POk(EBool(TRUE), Parser_advance(toks, pos))
      [] Parser_cur(toks, pos).k = "False" -> POk(EBool(FALSE), Parser_advance(toks, pos))
      [] Parser_cur(toks, pos).k = "LBracket" -> Parser_list(toks, pos)
      [] Parser_cur(toks, pos).k = "Ident" ->
              Parser_atom_ident(toks, Parser_advance(toks, pos), Parser_cur(toks, pos).s)
      [] Parser_cur(toks, pos).k = "LParen" ->
              Try(Parser_eat(toks, pos, "LParen"), LAMBDA lp :
              Try(Parser_expr(toks, lp.pos), LAMBDA x :
              Try(Parser_eat(toks, x.pos, "RParen"), LAMBDA rp :
              POk(x.v, rp.pos))))
      [] Parser_cur(toks, pos).k \in {"Minus", "Not"} -> Parser_unary(toks, pos)
      [] OTHER -> PErr("Unexpected token in expression", "expression",
                       Parser_cur(toks, pos).k, pos)

\* `while !matches!(self.cur(), stop)`: the loop of parse (stop = EOF) and of
\* block (stop = RBrace), with the statements `acc` parsed so far
Parser_stmts_until(toks, pos, stop, acc) ==
    IF Parser_cur(toks, pos).k = stop THEN POk(acc, pos)
    ELSE Try(Parser_stmt(toks, pos), LAMBDA st :
             Parser_stmts_until(toks, st.pos, stop, Append(acc, st.v)))

Parser_block(toks, pos) ==
    Try(Parser_eat(toks, pos, "LBrace"), LAMBDA lb :
    Try(Parser_stmts_until(toks, lb.pos, "RBrace", <<>>), LAMBDA stmts :
    Try(Parser_eat(toks, stmts.pos, "RBrace"), LAMBDA rb :
    POk(stmts.v, rb.pos))))

\* the `loop` of params
Parser_params_loop(toks, pos, p) ==
    Try(Parser_ident(toks, pos), LAMBDA name :
        IF Parser_cur(toks, name.pos).k # "Comma" THEN POk(Append(p, name.v), name.pos)
        ELSE Parser_params_loop(toks, Parser_advance(toks, name.pos), Append(p, name.v)))

Parser_params(toks, pos) ==
    IF Parser_cur(toks, pos).k = "RParen" THEN POk(<<>>, pos)
    ELSE Parser_params_loop(toks, pos, <<>>)

\* the `match target` of assignment_stmt
Parser_assignment_target(target, value, pos) ==
    CASE target.e = "Ident" -> POk(SAssign(target.name, value), pos)
      [] target.e = "Index" ->
           IF target.target.e = "Ident"
           THEN POk(SAssign(target.target.name,
                            EIndex(EIdent(target.target.name), target.index, Some(value))),
                    pos)
           ELSE PErr("Invalid assignment target", "target", target.target.e, pos)
      [] OTHER -> PErr("Invalid assignment target", "target", target.e, pos)

Parser_assignment_stmt(toks, pos) ==
    Try(Parser_expr(toks, pos), LAMBDA target :
    Try(Parser_eat(toks, target.pos, "Eq"), LAMBDA eq :
    Try(Parser_expr(toks, eq.pos), LAMBDA value :
    Try(Parser_eat(toks, value.pos, "Semicolon"), LAMBDA semi :
    Parser_assignment_target(target.v, value.v, semi.pos)))))

\* `= expr` when an `=` follows, else the default: Some(expr) for optional
Parser_initializer(toks, pos, optional, default) ==
    IF Parser_cur(toks, pos).k = "Eq"
    THEN Try(Parser_expr(toks, Parser_advance(toks, pos)), LAMBDA x :
             POk(IF optional THEN Some(x.v) ELSE x.v, x.pos))
    ELSE POk(default, pos)

Parser_const_decl(toks, pos) ==
    Try(Parser_eat(toks, pos, "Constant"), LAMBDA kw :
    Try(Parser_ident(toks, kw.pos), LAMBDA name :
    Try(Parser_initializer(toks, name.pos, FALSE, EInt(0)), LAMBDA value :
    Try(Parser_eat(toks, value.pos, "Semicolon"), LAMBDA semi :
    POk(SConst(name.v, value.v), semi.pos)))))

Parser_mutable_decl(toks, pos) ==
    Try(Parser_eat(toks, pos, "Mutable"), LAMBDA kw :
    Try(Parser_ident(toks, kw.pos), LAMBDA name :
    Try(Parser_initializer(toks, name.pos, TRUE, None), LAMBDA init :
    Try(Parser_eat(toks, init.pos, "Semicolon"), LAMBDA semi :
    POk(SMutable(name.v, init.v), semi.pos)))))

Parser_assign(toks, pos) ==
    Try(Parser_eat(toks, pos, "Assign"), LAMBDA kw :
    Try(Parser_ident(toks, kw.pos), LAMBDA name :
    Try(Parser_eat(toks, name.pos, "Eq"), LAMBDA eq :
    Try(Parser_expr(toks, eq.pos), LAMBDA value :
    Try(Parser_eat(toks, value.pos, "Semicolon"), LAMBDA semi :
    POk(SAssign(name.v, value.v), semi.pos))))))

\* the optional value of yield_stmt
Parser_yield_value(toks, pos) ==
    IF Parser_cur(toks, pos).k # "Semicolon"
    THEN Try(Parser_expr(toks, pos), LAMBDA x : POk(Some(x.v), x.pos))
    ELSE POk(None, pos)

Parser_yield_stmt(toks, pos) ==
    Try(Parser_eat(toks, pos, "Yield"), LAMBDA kw :
    Try(Parser_yield_value(toks, kw.pos), LAMBDA val :
    Try(Parser_eat(toks, val.pos, "Semicolon"), LAMBDA semi :
    POk(SReturn(val.v), semi.pos))))

Parser_course(toks, pos) ==
    Try(Parser_eat(toks, pos, "Course"), LAMBDA kw :
    Try(Parser_ident(toks, kw.pos), LAMBDA name :
    Try(Parser_eat(toks, name.pos, "LParen"), LAMBDA lp :
    Try(Parser_params(toks, lp.pos), LAMBDA params :
    Try(Parser_eat(toks, params.pos, "RParen"), LAMBDA rp :
    Try(Parser_block(toks, rp.pos), LAMBDA body :
    POk(SCourse(name.v, params.v, body.v), body.pos)))))))

Parser_purpose(toks, pos) ==
    Try(Parser_eat(toks, pos, "Purpose"), LAMBDA kw :
    Try(Parser_ident(toks, kw.pos), LAMBDA name :
    Try(Parser_eat(toks, name.pos, "LParen"), LAMBDA lp :
    Try(Parser_params(toks, lp.pos), LAMBDA params :
    Try(Parser_eat(toks, params.pos, "RParen"), LAMBDA rp :
    Try(Parser_block(toks, rp.pos), LAMBDA body :
    POk(SPurpose(name.v, params.v, body.v), body.pos)))))))

Parser_persist(toks, pos) ==
    Try(Parser_eat(toks, pos, "Persist"), LAMBDA kw :
    Try(Parser_expr(toks, kw.pos), LAMBDA cond :
    Try(Parser_block(toks, cond.pos), LAMBDA body :
    POk(SPersist(cond.v, body.v), body.pos))))

\* `while matches!(self.cur(), Differently)` of when, with the pairs parsed so far
Parser_elifs(toks, pos, elifs) ==
    IF Parser_cur(toks, pos).k # "Differently" THEN POk(elifs, pos)
    ELSE Try(Parser_expr(toks, Parser_advance(toks, pos)), LAMBDA c :
         Try(Parser_eat(toks, c.pos, "Then"), LAMBDA th :
         Try(Parser_block(toks, th.pos), LAMBDA b :
         Parser_elifs(toks, b.pos, Append(elifs, <<c.v, b.v>>)))))

\* the optional `otherwise` block of when
Parser_otherwise(toks, pos) ==
    IF Parser_cur(toks, pos).k = "Otherwise"
    THEN Parser_block(toks, Parser_advance(toks, pos))
    ELSE POk(<<>>, pos)

Parser_when(toks, pos) ==
    Try(Parser_eat(toks, pos, "When"), LAMBDA kw :
    Try(Parser_expr(toks, kw.pos), LAMBDA cond :
    Try(Parser_eat(toks, cond.pos, "Then"), LAMBDA th :
    Try(Parser_block(toks, th.pos), LAMBDA then :
    Try(Parser_elifs(toks, then.pos, <<>>), LAMBDA elifs :
    Try(Parser_otherwise(toks, elifs.pos), LAMBDA otherwise :
    POk(SWhen(cond.v, then.v, elifs.v, otherwise.v), otherwise.pos)))))))

Parser_iterate_loop(toks, pos) ==
    Try(Parser_eat(toks, pos, "Iterate"), LAMBDA kw :
    Try(Parser_ident(toks, kw.pos), LAMBDA var :
    Try(Parser_eat(toks, var.pos, "Across"), LAMBDA ac :
    Try(Parser_expr(toks, ac.pos), LAMBDA iterable :
    Try(Parser_block(toks, iterable.pos), LAMBDA body :
    POk(SIterate(var.v, iterable.v, body.v), body.pos))))))

Parser_stmt(toks, pos) ==
    CASE Parser_cur(toks, pos).k = "Constant" -> Parser_const_decl(toks, pos)
      [] Parser_cur(toks, pos).k = "Mutable" -> Parser_mutable_decl(toks, pos)
      [] Parser_cur(toks, pos).k = "Assign" -> Parser_assign(toks, pos)
      [] Parser_cur(toks, pos).k = "Yield" -> Parser_yield_stmt(toks, pos)
      [] Parser_cur(toks, pos).k = "Course" -> Parser_course(toks, pos)
      [] Parser_cur(toks, pos).k = "Purpose" -> Parser_purpose(toks, pos)
      [] Parser_cur(toks, pos).k = "Persist" -> Parser_persist(toks, pos)
      [] Parser_cur(toks, pos).k = "When" -> Parser_when(toks, pos)
      [] Parser_cur(toks, pos).k = "Iterate" -> Parser_iterate_loop(toks, pos)
      [] Parser_cur(toks, pos).k = "LBrace" ->
           Try(Parser_block(toks, pos), LAMBDA block : POk(SBlock(block.v), block.pos))
      [] OTHER ->
           IF Parser_is_assignment_target(toks, pos)
           THEN Parser_assignment_stmt(toks, pos)
           ELSE Try(Parser_expr(toks, pos), LAMBDA x :
                Try(Parser_eat(toks, x.pos, "Semicolon"), LAMBDA semi :
                POk(SExpr(x.v), semi.pos)))

Parser_parse(toks) == Parser_stmts_until(toks, 0, "EOF", <<>>)

-----------------------------------------------------------------------------
(* Instructions (codegen.rs, enum IR).                                       *)

IR0(op) == [op |-> op]
PushI(n) == [op |-> "PushI", n |-> n]
PushF(num, den) == [op |-> "PushF", num |-> num, den |-> den]
PushS(s) == [op |-> "PushS", s |-> s]
PushB(b) == [op |-> "PushB", b |-> b]
PushNull == IR0("PushNull")
Load(name) == [op |-> "Load", name |-> name]
Store(name) == [op |-> "Store", name |-> name]
Jump(t) == [op |-> "Jump", t |-> t]
JumpFalse(t) == [op |-> "JumpFalse", t |-> t]
Call(name, argc) == [op |-> "Call", name |-> name, argc |-> argc]
Return == IR0("Return")
MakeList(size) == [op |-> "MakeList", size |-> size]

-----------------------------------------------------------------------------
(* Codegen (codegen.rs).  The operators thread Codegen.code; emit appends   *)
(* and the position it returns is the length before the append.             *)

Codegen_emit(c, op) == Append(c, op)

Codegen_patch(c, pos, target) ==
    IF c[pos + 1].op \in {"Jump", "JumpFalse"}
    THEN [c EXCEPT ![pos + 1].t = target]
    ELSE c

RECURSIVE Codegen_patch_all(_, _, _)
\* `for j in exit_jumps { self.patch(j, end); }`
Codegen_patch_all(c, jumps, target) ==
    IF jumps = <<>> THEN c
    ELSE Codegen_patch_all(Codegen_patch(c, Head(jumps), target), Tail(jumps), target)

\* the instruction of a binary operator token; NoIR when the match arm is `_ => {}`
NoIR == IR0("<none>")

Codegen_binary_op(op) ==
    CASE op.k = "Plus" -> IR0("Add")
      [] op.k = "Minus" -> IR0("Sub")
      [] op.k = "Star" -> IR0("Mul")
      [] op.k = "Slash" -> IR0("Div")
      [] op.k = "Percent" -> IR0("Mod")
      [] op.k = "Power" -> IR0("Power")
      [] op.k = "EqEq" -> IR0("Eq")
      [] op.k = "BangEq" -> IR0("Neq")
      [] op.k = "Lt" -> IR0("Lt")
      [] op.k = "Gt" -> IR0("Gt")
      [] op.k = "LtEq" -> IR0("Le")
      [] op.k = "GtEq" -> IR0("Ge")
      [] op.k = "And" -> IR0("And")
      [] op.k = "Or" -> IR0("Or")
      [] op.k = "To" -> IR0("Le")
      [] OTHER -> NoIR

\* `let x = e;`: the rest of the function K with x bound to the value of e,
\* which is computed first (Rust evaluates eagerly)
Let(x, K(_)) == CHOOSE r \in {K(y) : y \in {x}} : TRUE

RECURSIVE Codegen_expr(_, _), Codegen_exprs(_, _), Codegen_stmt(_, _), Codegen_stmts(_, _),
          Codegen_elifs(_, _)

\* `for a in args { self.expr(a); }`
Codegen_exprs(c, es) ==
    IF es = <<>> THEN c ELSE Codegen_exprs(Codegen_expr(c, Head(es)), Tail(es))

\* `a and b`, `a or b` that skip b when a decides the result
Codegen_expr_short_circuit(c, e) ==
    IF e.e = "Binary" /\ e.op.k \in {"And", "Or"}
    THEN Let(IF e.op.k = "And" THEN Codegen_expr(c, e.left)
             ELSE Codegen_emit(Codegen_expr(c, e.left), IR0("Not")), LAMBDA c1 :
         Let(Codegen_expr(Codegen_emit(c1, JumpFalse(0)), e.right), LAMBDA c3 :
         Let(Codegen_emit(Codegen_emit(Codegen_emit(c3, IR0("Not")), IR0("Not")), Jump(0)),
             LAMBDA c4 :
         Let(Codegen_emit(c4, PushB(e.op.k = "Or")), LAMBDA c5 :
         Codegen_patch(Codegen_patch(c5, Len(c1), Len(c4)), Len(c4) - 1, Len(c5))))))
    ELSE CASE e.e = "Int" -> Codegen_emit(c, PushI(e.n))
      [] e.e = "Float" -> Codegen_emit(c, PushF(e.num, e.den))
      [] e.e = "Str" -> Codegen_emit(c, PushS(e.s))
      [] e.e = "Bool" -> Codegen_emit(c, PushB(e.b))
      [] e.e = "List" -> Codegen_emit(Codegen_exprs(c, e.elems), MakeList(Len(e.elems)))
      [] e.e = "Ident" -> Codegen_emit(c, Load(e.name))
      [] e.e = "Call" -> Codegen_emit(Codegen_exprs(c, e.args), Call(e.callee, Len(e.args)))
      [] e.e = "Index" /\ e.value.opt = "Some" ->
           Codegen_emit(Codegen_expr(Codegen_expr(Codegen_expr(c, e.target), e.index),
                                     e.value.x),
                        IR0("SetIndex"))
      [] e.e = "Index" /\ e.value.opt = "None" ->
           Codegen_emit(Codegen_expr(Codegen_expr(c, e.target), e.index), IR0("GetIndex"))
      [] e.e = "Binary" /\ Codegen_binary_op(e.op) # NoIR ->
           Codegen_emit(Codegen_expr(Codegen_expr(c, e.left), e.right),
                        Codegen_binary_op(e.op))
      [] e.e = "Binary" /\ Codegen_binary_op(e.op) = NoIR ->
           Codegen_expr(Codegen_expr(c, e.left), e.right)
      [] e.e = "Unary" /\ e.op.k = "Minus" ->
           Codegen_emit(Codegen_emit(Codegen_expr(c, e.expr), PushI(-1)), IR0("Mul"))
      [] e.e = "Unary" /\ e.op.k = "Not" ->
           Codegen_emit(Codegen_expr(c, e.expr), IR0("Not"))
      [] OTHER -> c

Codegen_expr(c, e) ==
    CASE e.e = "Int" -> Codegen_emit(c, PushI(e.n))
      [] e.e = "Float" -> Codegen_emit(c, PushF(e.num, e.den))
      [] e.e = "Str" -> Codegen_emit(c, PushS(e.s))
      [] e.e = "Bool" -> Codegen_emit(c, PushB(e.b))
      [] e.e = "List" -> Codegen_emit(Codegen_exprs(c, e.elems), MakeList(Len(e.elems)))
      [] e.e = "Ident" -> Codegen_emit(c, Load(e.name))
      [] e.e = "Call" -> Codegen_emit(Codegen_exprs(c, e.args), Call(e.callee, Len(e.args)))
      [] e.e = "Index" /\ e.value.opt = "Some" ->
           Codegen_emit(Codegen_expr(Codegen_expr(Codegen_expr(c, e.target), e.index),
                                     e.value.x),
                        IR0("SetIndex"))
      [] e.e = "Index" /\ e.value.opt = "None" ->
           Codegen_emit(Codegen_expr(Codegen_expr(c, e.target), e.index), IR0("GetIndex"))
      [] e.e = "Binary" /\ Codegen_binary_op(e.op) # NoIR ->
           Codegen_emit(Codegen_expr(Codegen_expr(c, e.left), e.right),
                        Codegen_binary_op(e.op))
      [] e.e = "Binary" /\ Codegen_binary_op(e.op) = NoIR ->
           Codegen_expr(Codegen_expr(c, e.left), e.right)
      [] e.e = "Unary" /\ e.op.k = "Minus" ->
           Codegen_emit(Codegen_emit(Codegen_expr(c, e.expr), PushI(-1)), IR0("Mul"))
      [] e.e = "Unary" /\ e.op.k = "Not" ->
           Codegen_emit(Codegen_expr(c, e.expr), IR0("Not"))
      [] OTHER -> c

\* `for b in body { self.stmt(b); }`
Codegen_stmts(c, body) ==
    IF body = <<>> THEN c
    ELSE Let(Codegen_stmt(c, Head(body)), LAMBDA n : Codegen_stmts(n, Tail(body)))

\* one else-if of Stmt::When: j is the offset of its JumpFalse(0) (c1 is the
\* code up to it), c3 the code up to its exit jump
Codegen_elif_push(st, c1, c3) ==
    [code |-> Codegen_emit(c3, Jump(0)),
     exit_jumps |-> Append(st.exit_jumps, Len(c3)),
     cond_jumps |-> Append(st.cond_jumps, Len(c1))]

\* `for (c, b) in elifs` of Stmt::When; st holds code, exit_jumps, cond_jumps.
\* cond_jumps is only ever pushed to.
Codegen_elifs(st, elifs) ==
    IF elifs = <<>> THEN st
    ELSE Let(Codegen_expr(st.code, Head(elifs)[1]), LAMBDA c1 :
         Let(Codegen_stmts(Codegen_emit(c1, JumpFalse(0)), Head(elifs)[2]), LAMBDA c3 :
         Codegen_elifs(Codegen_elif_push(st, c1, c3), Tail(elifs))))

Codegen_when(c, s) ==
    Let(Codegen_expr(c, s.cond), LAMBDA c1 :              \* cond_jumps[0] = Len(c1)
    Let(Codegen_stmts(Codegen_emit(c1, JumpFalse(0)), s.then), LAMBDA c3 :
    Let(Codegen_emit(c3, Jump(0)), LAMBDA c4 :            \* exit_jumps[0] = Len(c3)
    Let(Codegen_patch(c4, Len(c1), Len(c4)), LAMBDA c5 :
    Let(Codegen_elifs([code |-> c5, exit_jumps |-> <<Len(c3)>>, cond_jumps |-> <<Len(c1)>>],
                      s.elifs), LAMBDA st :
    Let(Codegen_stmts(st.code, s.otherwise), LAMBDA c6 :
    Codegen_patch_all(c6, st.exit_jumps, Len(c6))))))))

\* a loop that runs its body before it evaluates the condition
Codegen_persist_do_while(c, s) ==
    Let(Codegen_stmts(c, s.body), LAMBDA c1 :
    Let(Codegen_expr(c1, s.cond), LAMBDA c2 :
    Let(Codegen_emit(Codegen_emit(c2, JumpFalse(0)), Jump(Len(c))), LAMBDA c4 :
    Codegen_patch(c4, Len(c2), Len(c4)))))

Codegen_persist(c, s) ==
    Let(Codegen_expr(c, s.cond), LAMBDA c1 :              \* jf = Len(c1)
    Let(Codegen_stmts(Codegen_emit(c1, JumpFalse(0)), s.body), LAMBDA c3 :
    Let(Codegen_emit(c3, Jump(Len(c))), LAMBDA c4 :       \* start = Len(c)
    Codegen_patch(c4, Len(c1), Len(c4)))))

\* `i = i + 1` and the like: Load, PushI(1), Add, Store
Codegen_increment(c, name) ==
    Codegen_emit(Codegen_emit(Codegen_emit(Codegen_emit(c, Load(name)), PushI(1)),
                              IR0("Add")), Store(name))

\* a range for-each that evaluates its upper bound once, before the loop
Codegen_iterate_range_bound_once(c, s) ==
    Let(Codegen_emit(Codegen_expr(Codegen_emit(Codegen_expr(c, s.iterable.left), Store(s.var)),
                                  s.iterable.right), Store("_range_end")), LAMBDA c1 :
    Let(Codegen_emit(Codegen_emit(Codegen_emit(c1, Load(s.var)), Load("_range_end")),
                     IR0("Le")), LAMBDA c2 :
    Let(Codegen_stmts(Codegen_emit(c2, JumpFalse(0)), s.body), LAMBDA c4 :
    Let(Codegen_emit(Codegen_increment(c4, s.var), Jump(Len(c1))), LAMBDA c6 :
    Codegen_patch(c6, Len(c2), Len(c6))))))

\* Stmt::Iterate whose iterable is Binary { op: Token::To, .. }
Codegen_iterate_range(c, s) ==
    Let(Codegen_emit(Codegen_expr(c, s.iterable.left), Store(s.var)), LAMBDA c1 :
                                                          \* loop_start = Len(c1)
    Let(Codegen_emit(Codegen_expr(Codegen_emit(c1, Load(s.var)), s.iterable.right),
                     IR0("Le")), LAMBDA c2 :              \* jf = Len(c2)
    Let(Codegen_stmts(Codegen_emit(c2, JumpFalse(0)), s.body), LAMBDA c4 :
    Let(Codegen_emit(Codegen_increment(c4, s.var), Jump(Len(c1))), LAMBDA c6 :
    Codegen_patch(c6, Len(c2), Len(c6))))))

\* a for-each whose hidden list and index are named after its loop variable
Codegen_iterate_list_own_counters(c, s) ==
    Let(Codegen_emit(Codegen_emit(Codegen_emit(Codegen_expr(c, s.iterable),
            Store("_iter_list_" \o s.var)), PushI(0)), Store("_iter_index_" \o s.var)), LAMBDA c1 :
    Let(Codegen_emit(Codegen_emit(Codegen_emit(Codegen_emit(c1,
            Load("_iter_index_" \o s.var)), Load("_iter_list_" \o s.var)),
            IR0("ListLen")), IR0("Lt")), LAMBDA c2 :
    Let(Codegen_emit(Codegen_emit(Codegen_emit(Codegen_emit(Codegen_emit(c2,
            JumpFalse(0)),
            Load("_iter_list_" \o s.var)), Load("_iter_index_" \o s.var)),
            IR0("GetIndex")), Store(s.var)),
        LAMBDA c4 :
    Let(Codegen_emit(Codegen_increment(Codegen_stmts(c4, s.body), "_iter_index_" \o s.var),
                     Jump(Len(c1))), LAMBDA c7 :
    Codegen_patch(c7, Len(c2), Len(c7))))))

\* a for-each that evaluates the iterable again wherever it needs the list
Codegen_iterate_list_live(c, s) ==
    Let(Codegen_emit(Codegen_emit(Codegen_emit(Codegen_expr(c, s.iterable),
            Store("_iter_list")), PushI(0)), Store("_iter_index")), LAMBDA c1 :
    Let(Codegen_emit(Codegen_emit(Codegen_expr(Codegen_emit(c1,
            Load("_iter_index")), s.iterable), IR0("ListLen")), IR0("Lt")), LAMBDA c2 :
    Let(Codegen_emit(Codegen_emit(Codegen_emit(Codegen_expr(Codegen_emit(c2,
            JumpFalse(0)),
            s.iterable), Load("_iter_index")), IR0("GetIndex")), Store(s.var)),
        LAMBDA c4 :
    Let(Codegen_emit(Codegen_increment(Codegen_stmts(c4, s.body), "_iter_index"),
                     Jump(Len(c1))), LAMBDA c7 :
    Codegen_patch(c7, Len(c2), Len(c7))))))

\* Stmt::Iterate over any other iterable
Codegen_iterate_list(c, s) ==
    Let(Codegen_emit(Codegen_emit(Codegen_emit(Codegen_expr(c, s.iterable),
            Store("_iter_list")), PushI(0)), Store("_iter_index")), LAMBDA c1 :
                                                          \* loop_start = Len(c1)
    Let(Codegen_emit(Codegen_emit(Codegen_emit(Codegen_emit(c1,
            Load("_iter_index")), Load("_iter_list")), IR0("ListLen")), IR0("Lt")), LAMBDA c2 :
                                                          \* jf = Len(c2)
    Let(Codegen_emit(Codegen_emit(Codegen_emit(Codegen_emit(Codegen_emit(c2,
            JumpFalse(0)),
            Load("_iter_list")), Load("_iter_index")), IR0("GetIndex")), Store(s.var)),
        LAMBDA c4 :
    Let(Codegen_emit(Codegen_increment(Codegen_stmts(c4, s.body), "_iter_index"),
                     Jump(Len(c1))), LAMBDA c7 :
    Codegen_patch(c7, Len(c2), Len(c7))))))

\* the value an index write stores: the assigned expression, or PushNull
Codegen_assigned_value(c, value) ==
    IF value.opt = "Some" THEN Codegen_expr(c, value.x) ELSE Codegen_emit(c, PushNull)

Codegen_assign(c, s) ==
    IF s.value.e = "Index" /\ s.value.target.e = "Ident"
    THEN Codegen_emit(Codegen_emit(
             Codegen_assigned_value(
                 Codegen_expr(Codegen_emit(c, Load(s.value.target.name)), s.value.index),
                 s.value.value),
             IR0("SetIndex")), Store(s.value.target.name))
    ELSE Codegen_emit(Codegen_expr(c, s.value), Store(s.name))

Codegen_stmt(c, s) ==
    CASE s.s = "Const" -> Codegen_emit(Codegen_expr(c, s.value), Store(s.name))
      [] s.s = "Mutable" /\ s.init.opt = "Some" ->
           Codegen_emit(Codegen_expr(c, s.init.x), Store(s.name))
      [] s.s = "Mutable" /\ s.init.opt = "None" ->
           Codegen_emit(Codegen_emit(c, PushNull), Store(s.name))
      [] s.s = "Assign" -> Codegen_assign(c, s)
      [] s.s = "Expr" -> Codegen_expr(c, s.expr)
      [] s.s = "Return" /\ s.val.opt = "Some" ->
           Codegen_emit(Codegen_expr(c, s.val.x), Return)
      [] s.s = "Return" /\ s.val.opt = "None" ->
           Codegen_emit(Codegen_emit(c, PushNull), Return)
      [] s.s = "Persist" -> Codegen_persist(c, s)
      [] s.s = "When" -> Codegen_when(c, s)
      [] s.s = "Iterate" /\ s.iterable.e = "Binary" /\ s.iterable.op.k = "To" ->
           Codegen_iterate_range(c, s)
      [] s.s = "Iterate" /\ ~(s.iterable.e = "Binary" /\ s.iterable.op.k = "To") ->
           Codegen_iterate_list(c, s)
      [] s.s \in {"Course", "Purpose"} -> c
      [] s.s = "Block" -> Codegen_stmts(c, s.body)

RECURSIVE Codegen_param_stores_forward(_, _)
RECURSIVE Codegen_param_stores(_, _)
\* `for p in params.iter().rev() { self.emit(IR::Store(p.clone())); }`
\* the prologue with the stores in declaration order
Codegen_param_stores_forward(c, params) ==
    IF params = <<>> THEN c
    ELSE Codegen_param_stores_forward(Codegen_emit(c, Store(Head(params))), Tail(params))

Codegen_param_stores(c, params) ==
    IF params = <<>> THEN c
    ELSE Codegen_param_stores(Codegen_emit(c, Store(params[Len(params)])),
                              SubSeq(params, 1, Len(params) - 1))

\* self.functions.insert(name, entry)
Codegen_insert(fns, name, entry) ==
    [n \in DOMAIN fns \cup {name} |-> IF n = name THEN entry ELSE fns[n]]

\* one Course / Purpose of STEP 1: table entry, prologue, body, epilogue
Codegen_function(cg, s) ==
    [code |-> Codegen_emit(Codegen_emit(
                  Codegen_stmts(Codegen_param_stores(cg.code, s.params), s.body),
                  PushNull), Return),
     functions |-> Codegen_insert(cg.functions, s.name, Len(cg.code))]

RECURSIVE Codegen_functions(_, _)
\* a STEP 1 that also enters the definitions nested in a function body, a
\* block, a loop body or the first branch of a conditional
Codegen_functions_hoisting(cg, stmts) ==
    IF stmts = <<>> THEN cg
    ELSE IF Head(stmts).s \in {"Course", "Purpose"}
         THEN Codegen_functions(Codegen_functions(Codegen_function(cg, Head(stmts)),
                                                  Head(stmts).body), Tail(stmts))
         ELSE IF Head(stmts).s \in {"Block", "Persist", "Iterate"}
         THEN Codegen_functions(Codegen_functions(cg, Head(stmts).body), Tail(stmts))
         ELSE IF Head(stmts).s = "When"
         THEN Codegen_functions(Codegen_functions(cg, Head(stmts).then), Tail(stmts))
         ELSE Codegen_functions(cg, Tail(stmts))

\* STEP 1 of compile: cg holds code and functions
Codegen_functions(cg, stmts) ==
    IF stmts = <<>> THEN cg
    ELSE IF Head(stmts).s \in {"Course", "Purpose"}
         THEN Codegen_functions(Codegen_function(cg, Head(stmts)), Tail(stmts))
         ELSE Codegen_functions(cg, Tail(stmts))

\* one statement of STEP 2
Codegen_global(c, s) ==
    IF s.s \in {"Const", "Mutable", "Assign", "Expr", "Iterate", "Persist", "When", "Block"}
    THEN Codegen_stmt(c, s)
    ELSE c

RECURSIVE Codegen_globals(_, _)
\* STEP 2 of compile; cg.starts records the offset at which each top-level
\* statement's code begins (one entry per statement, in source order)
Codegen_globals(cg, stmts) ==
    IF stmts = <<>> THEN cg
    ELSE Let([code |-> Codegen_global(cg.code, Head(stmts)),
              functions |-> cg.functions,
              starts |-> Append(cg.starts, Len(cg.code))],
             LAMBDA n : Codegen_globals(n, Tail(stmts)))

\* the code and the function table after STEP 1 and the patch of the jump at 0
Codegen_step1(stmts) ==
    Let(Codegen_functions([code |-> Codegen_emit(<<>>, Jump(0)), functions |-> <<>>], stmts),
        LAMBDA f : [code |-> Codegen_patch(f.code, 0, Len(f.code)),
                    functions |-> f.functions,
                    starts |-> <<>>])

Codegen_compile(stmts) ==
    Let(Codegen_globals(Codegen_step1(stmts), stmts),
        LAMBDA g : [g EXCEPT !.code = Codegen_emit(Codegen_emit(g.code, PushNull), Return)])

-----------------------------------------------------------------------------
(* Values (vm.rs, enum Value).  A Float is carried as the exact rational    *)
(* num/den in lowest terms with den > 0; den = 0 stands for the non-finite  *)
(* floats: num = 1 is +inf, num = -1 is -inf, num = 0 is NaN.  The inputs   *)
(* of this model keep integers far inside i64 and floats inside the range   *)
(* where f64 arithmetic on them is exact.                                   *)

VInt(n) == [t |-> "Int", n |-> n]
VStr(s) == [t |-> "Str", s |-> s]
VBool(b) == [t |-> "Bool", b |-> b]
VNull == [t |-> "Null"]
VList(items) == [t |-> "List", items |-> items]

Abs(n) == IF n < 0 THEN -n ELSE n
Sign(n) == IF n < 0 THEN -1 ELSE IF n = 0 THEN 0 ELSE 1

RECURSIVE Gcd(_, _)
Gcd(a, b) == IF b = 0 THEN a ELSE Gcd(b, a % b)

\* the float num/den for den >= 0, in lowest terms
VFloat(num, den) ==
    IF den = 0 THEN [t |-> "Float", num |-> Sign(num), den |-> 0]
    ELSE LET g == Gcd(Abs(num), den) IN [t |-> "Float", num |-> num \div g, den |-> den \div g]

\* integer division and remainder of i64: the quotient truncates toward zero
TruncDiv(a, b) == Sign(a) * Sign(b) * (Abs(a) \div Abs(b))
TruncRem(a, b) == a - b * TruncDiv(a, b)

\* truthiness in which zero, the empty string and the empty list are false too
Value_truthy_empty_false(v) ==
    ~(v = VBool(FALSE) \/ v = VNull \/ v = VInt(0) \/ v = VStr("") \/ v = VList(<<>>))

Value_truthy(v) == ~(v = VBool(FALSE) \/ v = VNull)

\* a conversion that takes true as 1 and a string as its length
Value_as_f64_counting(v) ==
    CASE v.t = "Int" -> VFloat(v.n, 1)
      [] v.t = "Float" -> v
      [] v.t = "Bool" -> VFloat(IF v.b THEN 1 ELSE 0, 1)
      [] v.t = "Str" -> VFloat(3, 1)
      [] OTHER -> VFloat(0, 1)

Value_as_f64(v) ==
    CASE v.t = "Int" -> VFloat(v.n, 1)
      [] v.t = "Float" -> v
      [] OTHER -> VFloat(0, 1)

\* `as i64` of a float truncates toward zero; NaN gives 0 (the saturation of
\* the infinities to i64::MIN / i64::MAX is outside the integers of the model)
Value_as_int(v) ==
    CASE v.t = "Int" -> v.n
      [] v.t = "Float" /\ v.den # 0 -> TruncDiv(v.num, v.den)
      [] OTHER -> 0

\* f64 arithmetic on two Float values
F_add(a, b) ==
    IF a.den = 0 /\ b.den = 0
    THEN IF a.num = b.num THEN a ELSE VFloat(0, 0)
    ELSE VFloat(a.num * b.den + b.num * a.den, a.den * b.den)
F_neg(a) == [a EXCEPT !.num = -a.num]
F_sub(a, b) == F_add(a, F_neg(b))
F_mul(a, b) == VFloat(a.num * b.num, a.den * b.den)
F_div(a, b) ==
    IF b.num < 0 THEN VFloat((-a.num) * b.den, a.den * (-b.num))
    ELSE VFloat(a.num * b.den, a.den * b.num)
F_lt(a, b) ==
    IF (a.den = 0 /\ a.num = 0) \/ (b.den = 0 /\ b.num = 0) THEN FALSE
    ELSE IF a.den = 0 \/ b.den = 0
         THEN (IF a.den = 0 THEN 2 * a.num ELSE Sign(a.num))
              < (IF b.den = 0 THEN 2 * b.num ELSE Sign(b.num))
         ELSE a.num * b.den < b.num * a.den
F_eq(a, b) == ~(a.den = 0 /\ a.num = 0) /\ a = b
\* <= taken as <
F_le_strict(a, b) == F_lt(a, b)
F_le(a, b) == F_lt(a, b) \/ F_eq(a, b)

RECURSIVE IntPow(_, _)
IntPow(a, n) == IF n = 0 THEN 1 ELSE a * IntPow(a, n - 1)

\* a.powf(b) for an integral exponent b (the exponents of this model's inputs)
F_powf(a, b) ==
    IF b.num >= 0
    THEN VFloat(IntPow(a.num, b.num), IntPow(a.den, b.num))
    ELSE F_div(VFloat(1, 1), VFloat(IntPow(a.num, -b.num), IntPow(a.den, -b.num)))

\* an equality that compares an integer and a float by their numeric value
Value_eq_numeric(a, b) ==
    IF a.t \in {"Int", "Float"} /\ b.t \in {"Int", "Float"}
    THEN F_eq(Value_as_f64(a), Value_as_f64(b))
    ELSE a = b

RECURSIVE Value_eq(_, _)
\* derive(PartialEq): same variant and equal payload; NaN differs from itself
Value_eq(a, b) ==
    IF a.t # b.t THEN FALSE
    ELSE CASE a.t = "Float" -> F_eq(a, b)
           [] a.t = "List" ->
                /\ Len(a.items) = Len(b.items)
                /\ \A i \in 1..Len(a.items) : Value_eq(a.items[i], b.items[i])
           [] OTHER -> a = b

\* the result of bin_arith, or Panic when the integer operation panics
\* (division by zero)
Panic == [t |-> "<panic>"]

\* arithmetic that converts every operand that is not an integer with as_f64
bin_arith_coercing(op, a, b) ==
    IF a.t = "Int" /\ b.t = "Int"
    THEN CASE op = "Add" -> VInt(a.n + b.n)
           [] op = "Sub" -> VInt(a.n - b.n)
           [] op = "Mul" -> VInt(a.n * b.n)
           [] op = "Div" -> IF b.n = 0 THEN Panic ELSE VInt(TruncDiv(a.n, b.n))
    ELSE CASE op = "Add" -> F_add(Value_as_f64(a), Value_as_f64(b))
           [] op = "Sub" -> F_sub(Value_as_f64(a), Value_as_f64(b))
           [] op = "Mul" -> F_mul(Value_as_f64(a), Value_as_f64(b))
           [] op = "Div" -> F_div(Value_as_f64(a), Value_as_f64(b))

bin_arith(op, a, b) ==
    IF a.t = "Int" /\ b.t = "Int"
    THEN CASE op = "Add" -> VInt(a.n + b.n)
           [] op = "Sub" -> VInt(a.n - b.n)
           [] op = "Mul" -> VInt(a.n * b.n)
           [] op = "Div" -> IF b.n = 0 THEN Panic ELSE VInt(TruncDiv(a.n, b.n))
    ELSE IF a.t \in {"Int", "Float"} /\ b.t \in {"Int", "Float"}
    THEN LET x == Value_as_f64(a)
             y == Value_as_f64(b)
         IN CASE op = "Add" -> F_add(x, y)
              [] op = "Sub" -> F_sub(x, y)
              [] op = "Mul" -> F_mul(x, y)
              [] op = "Div" -> F_div(x, y)
    ELSE VNull

-----------------------------------------------------------------------------
(* VM (vm.rs).                                                               *)

max_steps == 10000

\* VM::pop: the top of the stack, or Null when the stack is empty
VM_top(st) == IF st = <<>> THEN VNull ELSE st[Len(st)]
VM_rest(st) == IF st = <<>> THEN <<>> ELSE SubSeq(st, 1, Len(st) - 1)

\* pop_n that removes nothing
VM_rest_n_keep(st, n) == st

RECURSIVE VM_rest_n(_, _)
VM_rest_n(st, n) == IF n = 0 THEN st ELSE VM_rest_n(VM_rest(st), n - 1)

\* VM::pop_n: n pops, reversed: the top n values in push order, with Null in
\* front for each pop of an empty stack
VM_pop_n(st, n) ==
    [i \in 1..n |-> IF Len(st) - n + i >= 1 THEN st[Len(st) - n + i] ELSE VNull]

\* `as usize` of an index: a negative i64 becomes a value past every length
IndexInRange(i, len) == i >= 0 /\ i < len

\* str::trim on a line given as a sequence of characters
Whitespace == {" ", "\t", "\n", "\r"}

RECURSIVE TrimStart(_), TrimEnd(_)
TrimStart(cs) == IF cs # <<>> /\ Head(cs) \in Whitespace THEN TrimStart(Tail(cs)) ELSE cs
TrimEnd(cs) ==
    IF cs # <<>> /\ cs[Len(cs)] \in Whitespace THEN TrimEnd(SubSeq(cs, 1, Len(cs) - 1)) ELSE cs
Trim(cs) == Concat(TrimEnd(TrimStart(cs)))

\* the lines read_line can return (the empty one is end of input)
InputLines == {<<>>, <<"o", "k", "\n">>, <<" ", "7", " ", "\r", "\n">>}

Instr == code[ip + 1]

\* the loop condition without the step budget
Running_ignoring_budget == pc = "run" /\ ip < Len(code)

\* the loop condition of VM::run
Running == pc = "run" /\ ip < Len(code) /\ steps < max_steps

\* index of the last top-level statement whose code begins at offset p, or 0
TopAt(p) ==
    LET ks == {k \in 1..Len(starts) : starts[k] = p} IN
    IF ks = {} THEN 0 ELSE CHOOSE k \in ks : \A j \in ks : j <= k

\* one dispatched instruction that leaves ip at p
Goto(p) ==
    /\ ip' = p
    /\ steps' = steps + 1
    /\ topSeen' = IF TopAt(p) # 0 THEN TopAt(p) ELSE topSeen

front == <<source, tokens, program, perr, code, functions, starts>>

NoError == [ok |-> TRUE]

\* main: Lexer::new(&source).lex() returned Ok(tokens)
LexOk ==
    /\ pc = "lex"
    /\ Lexer_lex(source).ok
    /\ tokens' = Lexer_lex(source).tokens
    /\ pc' = "parse"
    /\ UNCHANGED <<source, exit, program, perr, code, functions, starts, ip, steps, stack,
                   globals, call_stack, reported, diag, halted, topSeen>>

\* main: lex() returned Err(e): "Lexer Error" is printed and the process exits with 1
LexErr ==
    /\ pc = "lex"
    /\ ~Lexer_lex(source).ok
    /\ perr' = Lexer_lex(source)
    /\ pc' = "failed"
    /\ exit' = Some(1)
    /\ UNCHANGED <<source, tokens, program, code, functions, starts, ip, steps, stack,
                   globals, call_stack, reported, diag, halted, topSeen>>

\* main: Parser::new(tokens).parse() returned Ok(program)
ParseOk ==
    /\ pc = "parse"
    /\ Parser_parse(tokens).ok
    /\ program' = Parser_parse(tokens).v
    /\ pc' = "codegen"
    /\ UNCHANGED <<source, exit, tokens, perr, code, functions, starts, ip, steps, stack, globals,
                   call_stack, reported, diag, halted, topSeen>>

\* a driver that goes on to code generation after a parse error
ParseErr_continue ==
    /\ pc = "parse"
    /\ ~Parser_parse(tokens).ok
    /\ perr' = Parser_parse(tokens)
    /\ pc' = "codegen"
    /\ UNCHANGED <<source, exit, tokens, program, code, functions, starts, ip, steps, stack,
                   globals, call_stack, reported, diag, halted, topSeen>>

\* main: parse() returned Err(e): "Parser Error" is printed and the process exits with 1
ParseErr ==
    /\ pc = "parse"
    /\ ~Parser_parse(tokens).ok
    /\ perr' = Parser_parse(tokens)
    /\ pc' = "failed"
    /\ exit' = Some(1)
    /\ UNCHANGED <<source, tokens, program, code, functions, starts, ip, steps, stack, globals,
                   call_stack, reported, diag, halted, topSeen>>

\* main: cg.compile(&program), then VM::new() and the entry of run
Compile ==
    /\ pc = "codegen"
    /\ LET cg == Codegen_compile(program) IN
         /\ code' = cg.code
         /\ functions' = cg.functions
         /\ starts' = cg.starts
    /\ pc' = "run"
    /\ UNCHANGED <<source, exit, tokens, program, perr, ip, steps, stack, globals, call_stack,
                   reported, diag, halted, topSeen>>

\* IR::PushI, PushF, PushS, PushB, PushNull
ExecPush ==
    /\ Running
    /\ Instr.op \in {"PushI", "PushF", "PushS", "PushB", "PushNull"}
    /\ stack' = Append(stack,
                       CASE Instr.op = "PushI" -> VInt(Instr.n)
                         [] Instr.op = "PushF" -> VFloat(Instr.num, Instr.den)
                         [] Instr.op = "PushS" -> VStr(Instr.s)
                         [] Instr.op = "PushB" -> VBool(Instr.b)
                         [] Instr.op = "PushNull" -> VNull)
    /\ Goto(ip + 1)
    /\ UNCHANGED <<front, exit, pc, globals, call_stack, reported, diag, halted>>

\* self.globals.get(name).cloned().unwrap_or(Value::Null)
VM_global(name) == IF name \in DOMAIN globals THEN globals[name] ELSE VNull

ExecLoad ==
    /\ Running
    /\ Instr.op = "Load"
    /\ stack' = Append(stack, VM_global(Instr.name))
    /\ Goto(ip + 1)
    /\ UNCHANGED <<front, exit, pc, globals, call_stack, reported, diag, halted>>

\* self.globals.insert(name, v)
VM_store(g, name, v) == [n \in DOMAIN g \cup {name} |-> IF n = name THEN v ELSE g[n]]

\* a Store that leaves a name alone once it is bound
ExecStore_write_once ==
    /\ Running
    /\ Instr.op = "Store"
    /\ globals' = (IF Instr.name \in DOMAIN globals THEN globals
                   ELSE VM_store(globals, Instr.name, VM_top(stack)))
    /\ stack' = VM_rest(stack)
    /\ Goto(ip + 1)
    /\ UNCHANGED <<front, exit, pc, call_stack, reported, diag, halted>>

ExecStore ==
    /\ Running
    /\ Instr.op = "Store"
    /\ globals' = VM_store(globals, Instr.name, VM_top(stack))
    /\ stack' = VM_rest(stack)
    /\ Goto(ip + 1)
    /\ UNCHANGED <<front, exit, pc, call_stack, reported, diag, halted>>

\* the value an arithmetic instruction pushes for a (below) and b (top), or Panic
VM_arith(op, a, b) ==
    CASE op \in {"Add", "Sub", "Mul", "Div"} -> bin_arith(op, a, b)
      [] op = "Mod" ->
           IF a.t = "Int" /\ b.t = "Int"
           THEN IF b.n = 0 THEN Panic ELSE VInt(TruncRem(a.n, b.n))
           ELSE VNull
      [] op = "Power" -> F_powf(Value_as_f64(a), Value_as_f64(b))

\* IR::Add, Sub, Mul, Div, Mod, Power; an integer division or remainder by
\* zero panics and the process aborts
ExecArith ==
    /\ Running
    /\ Instr.op \in {"Add", "Sub", "Mul", "Div", "Mod", "Power"}
    /\ LET b == VM_top(stack)
           a == VM_top(VM_rest(stack))
           r == VM_arith(Instr.op, a, b)
       IN IF r = Panic
          THEN /\ pc' = "panicked"
               /\ exit' = Some(101)
               /\ stack' = VM_rest(VM_rest(stack))
               /\ steps' = steps + 1
               /\ UNCHANGED <<ip, topSeen>>
          ELSE /\ stack' = Append(VM_rest(VM_rest(stack)), r)
               /\ Goto(ip + 1)
               /\ UNCHANGED <<pc, exit>>
    /\ UNCHANGED <<front, globals, call_stack, reported, diag, halted>>

\* the boolean a comparison instruction pushes for left (below) and right (top)
VM_compare(op, left, right) ==
    LET l == Value_as_f64(left)
        r == Value_as_f64(right)
    IN CASE op = "Eq" -> Value_eq(left, right)
         [] op = "Neq" -> ~Value_eq(left, right)
         [] op = "Lt" -> F_lt(l, r)
         [] op = "Gt" -> F_lt(r, l)
         [] op = "Le" -> F_le(l, r)
         [] op = "Ge" -> F_le(r, l)

\* IR::Eq, Neq, Lt, Gt, Le, Ge
ExecCompare ==
    /\ Running
    /\ Instr.op \in {"Eq", "Neq", "Lt", "Gt", "Le", "Ge"}
    /\ stack' = Append(VM_rest(VM_rest(stack)),
                       VBool(VM_compare(Instr.op, VM_top(VM_rest(stack)), VM_top(stack))))
    /\ Goto(ip + 1)
    /\ UNCHANGED <<front, exit, pc, globals, call_stack, reported, diag, halted>>

\* IR::And, Or
ExecAndOr ==
    /\ Running
    /\ Instr.op \in {"And", "Or"}
    /\ LET b == Value_truthy(VM_top(stack))
           a == Value_truthy(VM_top(VM_rest(stack)))
       IN stack' = Append(VM_rest(VM_rest(stack)),
                          VBool(IF Instr.op = "And" THEN a /\ b ELSE a \/ b))
    /\ Goto(ip + 1)
    /\ UNCHANGED <<front, exit, pc, globals, call_stack, reported, diag, halted>>

ExecNot ==
    /\ Running
    /\ Instr.op = "Not"
    /\ stack' = Append(VM_rest(stack), VBool(~Value_truthy(VM_top(stack))))
    /\ Goto(ip + 1)
    /\ UNCHANGED <<front, exit, pc, globals, call_stack, reported, diag, halted>>

ExecJump ==
    /\ Running
    /\ Instr.op = "Jump"
    /\ Goto(Instr.t)
    /\ UNCHANGED <<front, exit, pc, stack, globals, call_stack, reported, diag, halted>>

ExecJumpFalse ==
    /\ Running
    /\ Instr.op = "JumpFalse"
    /\ stack' = VM_rest(stack)
    /\ Goto(IF ~Value_truthy(VM_top(stack)) THEN Instr.t ELSE ip + 1)
    /\ UNCHANGED <<front, exit, pc, globals, call_stack, reported, diag, halted>>

ExecMakeList ==
    /\ Running
    /\ Instr.op = "MakeList"
    /\ stack' = Append(VM_rest_n(stack, Instr.size), VList(VM_pop_n(stack, Instr.size)))
    /\ Goto(ip + 1)
    /\ UNCHANGED <<front, exit, pc, globals, call_stack, reported, diag, halted>>

\* indexing in which a negative index counts from the end of the list
VM_get_index_from_end(target, index) ==
    LET i == Value_as_int(index) IN
    IF target.t = "List" /\ IndexInRange(i, Len(target.items))
    THEN target.items[i + 1]
    ELSE IF target.t = "List" /\ IndexInRange(i + Len(target.items), Len(target.items))
    THEN target.items[i + Len(target.items) + 1]
    ELSE VNull

\* the value GetIndex pushes for the target (below) and the index (top)
VM_get_index(target, index) ==
    LET i == Value_as_int(index) IN
    IF target.t = "List" /\ IndexInRange(i, Len(target.items))
    THEN target.items[i + 1]
    ELSE VNull

ExecGetIndex ==
    /\ Running
    /\ Instr.op = "GetIndex"
    /\ stack' = Append(VM_rest(VM_rest(stack)),
                       VM_get_index(VM_top(VM_rest(stack)), VM_top(stack)))
    /\ Goto(ip + 1)
    /\ UNCHANGED <<front, exit, pc, globals, call_stack, reported, diag, halted>>

\* the value SetIndex pushes for the target, the index and the value (top)
\* SetIndex that overwrites every element
VM_set_index_fill(target, index, value) ==
    IF target.t = "List" THEN VList([k \in DOMAIN target.items |-> value]) ELSE VNull

\* SetIndex that gives the target back when it cannot write
VM_set_index_keep(target, index, value) ==
    IF target.t = "List" /\ IndexInRange(Value_as_int(index), Len(target.items))
    THEN VList([target.items EXCEPT ![Value_as_int(index) + 1] = value])
    ELSE target

VM_set_index(target, index, value) ==
    LET i == Value_as_int(index) IN
    IF target.t = "List" /\ IndexInRange(i, Len(target.items))
    THEN VList([target.items EXCEPT ![i + 1] = value])
    ELSE VNull

ExecSetIndex ==
    /\ Running
    /\ Instr.op = "SetIndex"
    /\ stack' = Append(VM_rest_n(stack, 3),
                       VM_set_index(VM_top(VM_rest_n(stack, 2)), VM_top(VM_rest(stack)),
                                    VM_top(stack)))
    /\ Goto(ip + 1)
    /\ UNCHANGED <<front, exit, pc, globals, call_stack, reported, diag, halted>>

ExecListLen ==
    /\ Running
    /\ Instr.op = "ListLen"
    /\ stack' = Append(VM_rest(stack),
                       IF VM_top(stack).t = "List" THEN VInt(Len(VM_top(stack).items))
                       ELSE VInt(0))
    /\ Goto(ip + 1)
    /\ UNCHANGED <<front, exit, pc, globals, call_stack, reported, diag, halted>>

\* a dispatch that consults the function table before the builtin names
VM_call_kind_table_first(name) ==
    IF name \in DOMAIN functions THEN "user"
    ELSE IF name = "getInput" THEN "getInput"
    ELSE IF name = "report" THEN "report"
    ELSE "unknown"

\* which arm of IR::Call handles a call of `name`
VM_call_kind(name) ==
    IF name = "getInput" THEN "getInput"
    ELSE IF name = "report" THEN "report"
    ELSE IF name \in DOMAIN functions THEN "user"
    ELSE "unknown"

\* IR::Call, name == "getInput": one line is read from standard input
ExecCallGetInput ==
    /\ Running
    /\ Instr.op = "Call"
    /\ VM_call_kind(Instr.name) = "getInput"
    /\ \E line \in InputLines :
         stack' = Append(VM_rest_n(stack, Instr.argc), VStr(Trim(line)))
    /\ Goto(ip + 1)
    /\ UNCHANGED <<front, exit, pc, globals, call_stack, reported, diag, halted>>

\* a report that pushes no result
ExecCallReport_no_result ==
    /\ Running
    /\ Instr.op = "Call"
    /\ VM_call_kind(Instr.name) = "report"
    /\ reported' = Append(reported, VM_pop_n(stack, Instr.argc))
    /\ stack' = VM_rest_n(stack, Instr.argc)
    /\ Goto(ip + 1)
    /\ UNCHANGED <<front, exit, pc, globals, call_stack, diag, halted>>

\* IR::Call, name == "report"
ExecCallReport ==
    /\ Running
    /\ Instr.op = "Call"
    /\ VM_call_kind(Instr.name) = "report"
    /\ reported' = Append(reported, VM_pop_n(stack, Instr.argc))
    /\ stack' = Append(VM_rest_n(stack, Instr.argc), VNull)
    /\ Goto(ip + 1)
    /\ UNCHANGED <<front, exit, pc, globals, call_stack, diag, halted>>

\* a call that gives the callee an empty map of bindings
ExecCallUser_new_scope ==
    /\ Running
    /\ Instr.op = "Call"
    /\ VM_call_kind(Instr.name) = "user"
    /\ call_stack' = Append(call_stack, ip + 1)
    /\ globals' = <<>>
    /\ Goto(functions[Instr.name])
    /\ UNCHANGED <<front, exit, pc, stack, reported, diag, halted>>

\* IR::Call, the name is in the function table
ExecCallUser ==
    /\ Running
    /\ Instr.op = "Call"
    /\ VM_call_kind(Instr.name) = "user"
    /\ call_stack' = Append(call_stack, ip + 1)
    /\ Goto(functions[Instr.name])
    /\ UNCHANGED <<front, exit, pc, stack, globals, reported, diag, halted>>

\* IR::Call, any other name
ExecCallUnknown ==
    /\ Running
    /\ Instr.op = "Call"
    /\ VM_call_kind(Instr.name) = "unknown"
    /\ stack' = Append(VM_rest_n(stack, Instr.argc), VNull)
    /\ Goto(ip + 1)
    /\ UNCHANGED <<front, exit, pc, globals, call_stack, reported, diag, halted>>

\* a return that resumes at the oldest return address
ExecReturn_oldest ==
    /\ Running
    /\ Instr.op = "Return"
    /\ call_stack # <<>>
    /\ call_stack' = Tail(call_stack)
    /\ Goto(Head(call_stack))
    /\ UNCHANGED <<front, exit, pc, stack, globals, reported, diag, halted>>

\* IR::Return with a return address on the call stack
ExecReturn ==
    /\ Running
    /\ Instr.op = "Return"
    /\ call_stack # <<>>
    /\ call_stack' = SubSeq(call_stack, 1, Len(call_stack) - 1)
    /\ Goto(call_stack[Len(call_stack)])
    /\ UNCHANGED <<front, exit, pc, stack, globals, reported, diag, halted>>

\* IR::Return with an empty call stack: break
ExecReturnHalt ==
    /\ Running
    /\ Instr.op = "Return"
    /\ call_stack = <<>>
    /\ steps' = steps + 1
    /\ halted' = "return"
    /\ pc' = "post"
    /\ UNCHANGED <<front, exit, ip, stack, globals, call_stack, reported, diag, topSeen>>

\* the loop condition `ip < code.len() && steps < max_steps` is false
LoopExit ==
    /\ pc = "run"
    /\ ~(ip < Len(code) /\ steps < max_steps)
    /\ halted' = (IF ip < Len(code) THEN "budget" ELSE "end")
    /\ pc' = "post"
    /\ UNCHANGED <<front, exit, ip, steps, stack, globals, call_stack, reported, diag, topSeen>>

\* `if steps >= max_steps { eprintln!(..) }` after the loop, then run returns
\* and main ends
StepLimitCheck ==
    /\ pc = "post"
    /\ diag' = (steps >= max_steps)
    /\ pc' = "done"
    /\ exit' = Some(0)
    /\ UNCHANGED <<front, ip, steps, halted, stack, globals, call_stack, reported, topSeen>>

-----------------------------------------------------------------------------
(* Inputs: the programs the model runs, as the token sequences the lexer     *)
(* produces for them.                                                        *)

k_mutable == Tok("Mutable")
k_constant == Tok("Constant")
k_course == Tok("Course")
k_purpose == Tok("Purpose")
k_yield == Tok("Yield")
k_when == Tok("When")
k_then == Tok("Then")
k_differently == Tok("Differently")
k_otherwise == Tok("Otherwise")
k_persist == Tok("Persist")
k_iterate == Tok("Iterate")
k_across == Tok("Across")
k_to == Tok("To")
k_true == Tok("True")
k_false == Tok("False")
k_not == Tok("Not")
p_eq == Tok("Eq")
p_semi == Tok("Semicolon")
p_comma == Tok("Comma")
p_lparen == Tok("LParen")
p_rparen == Tok("RParen")
p_lbrace == Tok("LBrace")
p_rbrace == Tok("RBrace")
p_lbracket == Tok("LBracket")
p_rbracket == Tok("RBracket")
p_plus == Tok("Plus")
p_minus == Tok("Minus")
p_gt == Tok("Gt")
p_lt == Tok("Lt")
p_slash == Tok("Slash")

\* bounds of the input families
MaxElifs == 2      \* else-if branches of a conditional
MaxRange == 3      \* largest bound of a range loop
MaxDepth == 3      \* depth of the recursive countdown
MaxArgs == 2       \* arguments of a call to an undefined name

\* the literal n, written ( 0 - m ) when n = -m is negative
IntLit(n) == IF n >= 0 THEN <<TInt(n)>> ELSE <<p_lparen, TInt(0), p_minus, TInt(-n), p_rparen>>

\* name = tokens ;
AssignSrc(name, rhs) == <<TIdent(name), p_eq>> \o rhs \o <<p_semi>>

\* { n = n + 1; r = k; }
BodySrc(k) ==
    <<p_lbrace>> \o AssignSrc("n", <<TIdent("n"), p_plus, TInt(1)>>)
                 \o AssignSrc("r", <<TInt(k)>>) \o <<p_rbrace>>

CondTok(b) == IF b THEN k_true ELSE k_false

RECURSIVE ElifsSrc(_, _)
\* differently c then { n = n + 1; r = k; } for conds[k], conds[k+1], ...
ElifsSrc(conds, k) ==
    IF k > Len(conds) THEN <<>>
    ELSE <<k_differently, CondTok(conds[k]), k_then>> \o BodySrc(k) \o ElifsSrc(conds, k + 1)

\* n = 0; r = 99;
\* when c1 then {n = n + 1; r = 1;} differently c2 then {n = n + 1; r = 2;} ...
\* otherwise {n = n + 1; r = 0;}
\* z = 1;
WhenSrc(conds) ==
    AssignSrc("n", <<TInt(0)>>) \o AssignSrc("r", <<TInt(99)>>)
    \o <<k_when, CondTok(conds[1]), k_then>> \o BodySrc(1) \o ElifsSrc(conds, 2)
    \o <<k_otherwise>> \o BodySrc(0)
    \o AssignSrc("z", <<TInt(1)>>) \o <<TEOF>>

CondVectors == UNION {[1..m -> BOOLEAN] : m \in 1..(MaxElifs + 1)}

\* iterate i across lo to hi { report(i); }
RangeSrc(lo, hi) ==
    <<k_iterate, TIdent("i"), k_across>> \o IntLit(lo) \o <<k_to>> \o IntLit(hi)
    \o <<p_lbrace, TIdent("report"), p_lparen, TIdent("i"), p_rparen, p_semi, p_rbrace, TEOF>>

RangeBounds == (-1)..MaxRange

\* persist true { }
PersistTrueSrc == <<k_persist, k_true, p_lbrace, p_rbrace, TEOF>>

\* mutable k = 0; persist k < 2 { k = k + 1; }
PersistCountSrc ==
    <<k_mutable, TIdent("k"), p_eq, TInt(0), p_semi,
      k_persist, TIdent("k"), p_lt, TInt(2), p_lbrace>>
    \o AssignSrc("k", <<TIdent("k"), p_plus, TInt(1)>>) \o <<p_rbrace, TEOF>>

RECURSIVE ArgsSrc(_)
\* 1, 2, ..., n
ArgsSrc(n) ==
    IF n = 0 THEN <<>>
    ELSE IF n = 1 THEN <<TInt(1)>>
    ELSE ArgsSrc(n - 1) \o <<p_comma, TInt(n)>>

\* mutable x = 5; r = 7 + undefinedFn(1, .., argc); y = 1;
UnknownCallSrc(argc) ==
    <<k_mutable, TIdent("x"), p_eq, TInt(5), p_semi>>
    \o AssignSrc("r", <<TInt(7), p_plus, TIdent("undefinedFn"), p_lparen>> \o ArgsSrc(argc)
                      \o <<p_rparen>>)
    \o AssignSrc("y", <<TInt(1)>>) \o <<TEOF>>

\* mutable a = [1, 2, 3]; mutable b = a; a[i] = 9;
ListWriteSrc(i) ==
    <<k_mutable, TIdent("a"), p_eq, p_lbracket, TInt(1), p_comma, TInt(2), p_comma, TInt(3),
      p_rbracket, p_semi,
      k_mutable, TIdent("b"), p_eq, TIdent("a"), p_semi,
      TIdent("a"), p_lbracket, TInt(i), p_rbracket, p_eq, TInt(9), p_semi, TEOF>>

\* mutable x = 5; purpose f(x) { when x > 0 then { f(x - 1); } } f(d); after = x;
CountdownSrc(d) ==
    <<k_mutable, TIdent("x"), p_eq, TInt(5), p_semi,
      k_purpose, TIdent("f"), p_lparen, TIdent("x"), p_rparen, p_lbrace,
        k_when, TIdent("x"), p_gt, TInt(0), k_then, p_lbrace,
          TIdent("f"), p_lparen, TIdent("x"), p_minus, TInt(1), p_rparen, p_semi,
        p_rbrace,
      p_rbrace,
      TIdent("f"), p_lparen, TInt(d), p_rparen, p_semi>>
    \o AssignSrc("after", <<TIdent("x")>>) \o <<TEOF>>

\* the binary operator tokens of Parser::bp, with the level of each
\* (1 = or, the loosest, .. 8 = to, the tightest)
BinOpKinds == {"Or", "And", "EqEq", "BangEq", "Lt", "Gt", "LtEq", "GtEq",
               "Plus", "Minus", "Star", "Slash", "Percent", "Power", "To"}

\* r = 2 op1 3 op2 2;
ExprSrc(op1, op2) ==
    AssignSrc("r", <<TInt(2), Tok(op1), TInt(3), Tok(op2), TInt(2)>>) \o <<TEOF>>

\* course report(x) { hit = 1; }
\* purpose getInput() { hit = 2; yield 0; }
\* report(7, 8);
\* s = getInput(1);
ShadowSrc ==
    <<k_course, TIdent("report"), p_lparen, TIdent("x"), p_rparen, p_lbrace>>
    \o AssignSrc("hit", <<TInt(1)>>) \o <<p_rbrace,
      k_purpose, TIdent("getInput"), p_lparen, p_rparen, p_lbrace>>
    \o AssignSrc("hit", <<TInt(2)>>) \o <<k_yield, TInt(0), p_semi, p_rbrace,
      TIdent("report"), p_lparen, TInt(7), p_comma, TInt(8), p_rparen, p_semi>>
    \o AssignSrc("s", <<TIdent("getInput"), p_lparen, TInt(1), p_rparen>>) \o <<TEOF>>

\* t = 1;
\* course a() { b(); t = t + 10; }
\* t = t + 1;
\* b();
\* course b() { seen = t; }
\* a();
\* t = t + 100;
OrderSrc ==
    AssignSrc("t", <<TInt(1)>>)
    \o <<k_course, TIdent("a"), p_lparen, p_rparen, p_lbrace,
         TIdent("b"), p_lparen, p_rparen, p_semi>>
    \o AssignSrc("t", <<TIdent("t"), p_plus, TInt(10)>>) \o <<p_rbrace>>
    \o AssignSrc("t", <<TIdent("t"), p_plus, TInt(1)>>)
    \o <<TIdent("b"), p_lparen, p_rparen, p_semi,
         k_course, TIdent("b"), p_lparen, p_rparen, p_lbrace>>
    \o AssignSrc("seen", <<TIdent("t")>>) \o <<p_rbrace,
         TIdent("a"), p_lparen, p_rparen, p_semi>>
    \o AssignSrc("t", <<TIdent("t"), p_plus, TInt(100)>>) \o <<TEOF>>

\* purpose add(a, b) { yield a + b; }
\* r = add(1, 2);
\* iterate v across [4, 5] { report(v); }
\* e = [4, 5][1];
\* q = not true;
\* f = 1.5;
\* w = "hi";
AddSrc ==
    <<k_purpose, TIdent("add"), p_lparen, TIdent("a"), p_comma, TIdent("b"), p_rparen,
      p_lbrace, k_yield, TIdent("a"), p_plus, TIdent("b"), p_semi, p_rbrace>>
    \o AssignSrc("r", <<TIdent("add"), p_lparen, TInt(1), p_comma, TInt(2), p_rparen>>)
    \o <<k_iterate, TIdent("v"), k_across, p_lbracket, TInt(4), p_comma, TInt(5), p_rbracket,
         p_lbrace, TIdent("report"), p_lparen, TIdent("v"), p_rparen, p_semi, p_rbrace>>
    \o AssignSrc("e", <<p_lbracket, TInt(4), p_comma, TInt(5), p_rbracket,
                        p_lbracket, TInt(1), p_rbracket>>)
    \o AssignSrc("q", <<k_not, k_true>>)
    \o AssignSrc("f", <<TFloat(3, 2)>>)
    \o AssignSrc("w", <<TStr("hi")>>)
    \o <<TEOF>>

\* the parameter names of ParamsSrc
ParamNames == <<"p1", "p2", "p3", "p4", "p5">>

RECURSIVE ParamListSrc(_)
\* p1, p2, .., pn
ParamListSrc(n) ==
    IF n = 0 THEN <<>>
    ELSE IF n = 1 THEN <<TIdent(ParamNames[1])>>
    ELSE ParamListSrc(n - 1) \o <<p_comma, TIdent(ParamNames[n])>>

\* purpose f(p1, .., pn) { e = 1; }
\* r = 7 + f(1, .., n);
ParamsSrc(n) ==
    <<k_purpose, TIdent("f"), p_lparen>> \o ParamListSrc(n) \o <<p_rparen, p_lbrace>>
    \o AssignSrc("e", <<TInt(1)>>) \o <<p_rbrace>>
    \o AssignSrc("r", <<TInt(7), p_plus, TIdent("f"), p_lparen>> \o ArgsSrc(n) \o <<p_rparen>>)
    \o <<TEOF>>

\* r = 1 / 0;
DivZeroSrc == AssignSrc("r", <<TInt(1), p_slash, TInt(0)>>) \o <<TEOF>>

\* mutable = 1;
BadSrc == <<k_mutable, p_eq, TInt(1), p_semi, TEOF>>

\* bound of the sources lexed exhaustively
MaxSrcLen == 3      \* characters of a source text

\* the characters of the short sources: a digit, a letter, the quote, blank
\* and newline, the dot, two characters no token starts with or is (# and
\* the dot), and the operators / = ;
SrcAlphabet == {"1", "a", "\"", " ", "\n", ".", "#", "/", "=", ";"}

\* every text of at most MaxSrcLen characters of SrcAlphabet
ShortSources == UNION {[1..n -> SrcAlphabet] : n \in 0..MaxSrcLen}

\* persist true { }
PersistTrueText ==
    <<"p", "e", "r", "s", "i", "s", "t", " ", "t", "r", "u", "e", " ", "{", " ", "}">>

\* mutable = 1;
BadText ==
    <<"m", "u", "t", "a", "b", "l", "e", " ", "=", " ", "1", ";">>

\* r = 1 / 0;
DivZeroText ==
    <<"r", " ", "=", " ", "1", " ", "/", " ", "0", ";">>

\* // say hi
\* w = "hi
CommentText ==
    <<"/", "/", " ", "s", "a", "y", " ", "h", "i", "\n", "w", " ", "=", " ", "\"", "h",
      "i">>

\* f = 1.5; q = !true;
FloatText ==
    <<"f", " ", "=", " ", "1", ".", "5", ";", " ", "q", " ", "=", " ", "!", "t", "r",
      "u", "e", ";">>

\* x = 2 ** 3 <= 9.
LateDotText ==
    <<"x", " ", "=", " ", "2", " ", "*", "*", " ", "3", " ", "<", "=", " ", "9", ".">>

\* a = 1; #
LateHashText ==
    <<"a", " ", "=", " ", "1", ";", " ", "#">>

Sources ==
    ShortSources
    \cup {PersistTrueText, BadText, DivZeroText, CommentText,
          FloatText, LateDotText, LateHashText}

\* persist 0 { }
PersistZeroSrc == <<k_persist, TInt(0), p_lbrace, p_rbrace, TEOF>>

\* the condition expressions 0, 1, "", "x", [], [0], true, false, and n, a
\* variable nothing assigns
TruthConds ==
    {<<TInt(0)>>, <<TInt(1)>>, <<TStr("")>>, <<TStr("x")>>,
     <<p_lbracket, p_rbracket>>, <<p_lbracket, TInt(0), p_rbracket>>,
     <<k_true>>, <<k_false>>, <<TIdent("n")>>}

\* r = 0; when c then { r = 1; } a = c and true; o = c or false; t = not c;
TruthSrc(c) ==
    AssignSrc("r", <<TInt(0)>>)
    \o <<k_when>> \o c \o <<k_then, p_lbrace>> \o AssignSrc("r", <<TInt(1)>>) \o <<p_rbrace>>
    \o AssignSrc("a", c \o <<Tok("And"), k_true>>)
    \o AssignSrc("o", c \o <<Tok("Or"), k_false>>)
    \o AssignSrc("t", <<k_not>> \o c)
    \o <<TEOF>>

\* the operands 0, 1, 2, -1, 1.5, "abc", true, [1] and n, a variable nothing
\* assigns
Operands ==
    {<<TInt(0)>>, <<TInt(1)>>, <<TInt(2)>>, <<p_minus, TInt(1)>>, <<TFloat(15, 10)>>, <<TStr("abc")>>, <<k_true>>,
     <<p_lbracket, TInt(1), p_rbracket>>, <<TIdent("n")>>}
ArithOps == {"Plus", "Minus", "Star", "Slash", "Percent"}
OrderOps == {"Lt", "Gt", "LtEq", "GtEq"}

\* before = 7; r = x op y; after = 8;
BinSrc(op, x, y) ==
    AssignSrc("before", <<TInt(7)>>) \o AssignSrc("r", x \o <<Tok(op)>> \o y)
    \o AssignSrc("after", <<TInt(8)>>) \o <<TEOF>>

\* the indexed targets [4, 5], [], 3, "abc" and n, a variable nothing assigns
Targets ==
    {<<p_lbracket, TInt(4), p_comma, TInt(5), p_rbracket>>, <<p_lbracket, p_rbracket>>,
     <<TInt(3)>>, <<TStr("abc")>>, <<TIdent("n")>>}

\* before = 7; r = t[i]; after = 8;
GetSrc(t, i) ==
    AssignSrc("before", <<TInt(7)>>) \o AssignSrc("r", t \o <<p_lbracket>> \o i \o <<p_rbracket>>)
    \o AssignSrc("after", <<TInt(8)>>) \o <<TEOF>>

MaxList == 3        \* elements of the list a for-each visits

RECURSIVE ElementsSrc(_)
\* 4, 5, .., 3 + n
ElementsSrc(n) ==
    IF n = 0 THEN <<>>
    ELSE IF n = 1 THEN <<TInt(4)>>
    ELSE ElementsSrc(n - 1) \o <<p_comma, TInt(3 + n)>>

\* [4, 5, .., 3 + n]
ListSrc(n) == <<p_lbracket>> \o ElementsSrc(n) \o <<p_rbracket>>

\* the iterables a, g() and the list literal itself
Iterables(n) == {<<TIdent("a")>>, <<TIdent("g"), p_lparen, p_rparen>>, ListSrc(n)}

\* what the body does after report(v): nothing, a = [9]; a[0] = 9; a = 0;
LoopBodies ==
    {<<>>,
     AssignSrc("a", <<p_lbracket, TInt(9), p_rbracket>>),
     AssignSrc("a", <<TInt(0)>>),
     <<TIdent("a"), p_lbracket, TInt(0), p_rbracket, p_eq, TInt(9), p_semi>>}

\* purpose g() { report(0); yield [4, .., 3 + n]; }
\* mutable a = [4, .., 3 + n];
\* iterate v across <it> { report(v); <body> }
\* after = 8;
ForEachSrc(n, it, body) ==
    <<k_purpose, TIdent("g"), p_lparen, p_rparen, p_lbrace,
        TIdent("report"), p_lparen, TInt(0), p_rparen, p_semi, k_yield>>
    \o ListSrc(n) \o <<p_semi, p_rbrace,
      k_mutable, TIdent("a"), p_eq>> \o ListSrc(n) \o <<p_semi,
      k_iterate, TIdent("v"), k_across>> \o it \o <<p_lbrace,
        TIdent("report"), p_lparen, TIdent("v"), p_rparen, p_semi>> \o body \o <<p_rbrace>>
    \o AssignSrc("after", <<TInt(8)>>) \o <<TEOF>>

\* r = 1; yield 5; r = 2;
TopYieldSrc ==
    AssignSrc("r", <<TInt(1)>>) \o <<k_yield, TInt(5), p_semi>> \o AssignSrc("r", <<TInt(2)>>)
    \o <<TEOF>>

\* the iterations of the counting loop below: with them the program
\* dispatches 9 * (BudgetLoops + 1) = max_steps - 1 instructions
BudgetLoops == (max_steps \div 9) - 1

RECURSIVE PaddingSrc(_)
\* pad expression statements `0;`, one dispatched instruction each
PaddingSrc(pad) == IF pad = 0 THEN <<>> ELSE <<TInt(0), p_semi>> \o PaddingSrc(pad - 1)

\* mutable k = 0; persist k < BudgetLoops { k = k + 1; } 0; .. 0;
\* which needs max_steps - 1 + pad dispatched instructions to reach the end
BudgetSrc(pad) ==
    <<k_mutable, TIdent("k"), p_eq, TInt(0), p_semi,
      k_persist, TIdent("k"), p_lt, TInt(BudgetLoops), p_lbrace>>
    \o AssignSrc("k", <<TIdent("k"), p_plus, TInt(1)>>) \o <<p_rbrace>>
    \o PaddingSrc(pad) \o <<TEOF>>

MaxLoops == 3       \* truthy evaluations of the counted persist condition

\* purpose tick() { c = c + 1; yield c; }
\* c = 0;
\* b = 0;
\* persist tick() <= n { b = b + 1; }
\* after = 8;
TickSrc(n) ==
    <<k_purpose, TIdent("tick"), p_lparen, p_rparen, p_lbrace>>
    \o AssignSrc("c", <<TIdent("c"), p_plus, TInt(1)>>) \o <<k_yield, TIdent("c"), p_semi, p_rbrace>>
    \o AssignSrc("c", <<TInt(0)>>) \o AssignSrc("b", <<TInt(0)>>)
    \o <<k_persist, TIdent("tick"), p_lparen, p_rparen, Tok("LtEq"), TInt(n), p_lbrace>>
    \o AssignSrc("b", <<TIdent("b"), p_plus, TInt(1)>>) \o <<p_rbrace>>
    \o AssignSrc("after", <<TInt(8)>>) \o <<TEOF>>

\* iterate w across [4, .., 3 + m] { report(w); }
InnerLoopSrc(m) ==
    <<k_iterate, TIdent("w"), k_across>> \o ListSrc(m)
    \o <<p_lbrace, TIdent("report"), p_lparen, TIdent("w"), p_rparen, p_semi, p_rbrace>>

\* course inner() { <inner loop over m elements> }
\* iterate v across [4, .., 3 + n] { report(v); <inner loop>  or  inner(); }
\* after = 8;
NestSrc(n, m, direct) ==
    <<k_course, TIdent("inner"), p_lparen, p_rparen, p_lbrace>> \o InnerLoopSrc(m) \o <<p_rbrace,
      k_iterate, TIdent("v"), k_across>> \o ListSrc(n)
    \o <<p_lbrace, TIdent("report"), p_lparen, TIdent("v"), p_rparen, p_semi>>
    \o (IF direct THEN InnerLoopSrc(m) ELSE <<TIdent("inner"), p_lparen, p_rparen, p_semi>>)
    \o <<p_rbrace>> \o AssignSrc("after", <<TInt(8)>>) \o <<TEOF>>

\* r = u 2 op 3;  with u one of `-` and `not`
UnarySrc(u, op) == AssignSrc("r", <<Tok(u), TInt(2), Tok(op), TInt(3)>>) \o <<TEOF>>

\* r = u 2 * 3 < 4 or false;
UnaryChainSrc(u) ==
    AssignSrc("r", <<Tok(u), TInt(2), Tok("Star"), TInt(3), Tok("Lt"), TInt(4), Tok("Or"), k_false>>)
    \o <<TEOF>>

\* mutable a = t; mutable i = iv; a[i] = 9; after = 8;
SetSrc(t, iv) ==
    <<k_mutable, TIdent("a"), p_eq>> \o t \o <<p_semi, k_mutable, TIdent("i"), p_eq>> \o iv
    \o <<p_semi, TIdent("a"), p_lbracket, TIdent("i"), p_rbracket, p_eq, TInt(9), p_semi>>
    \o AssignSrc("after", <<TInt(8)>>) \o <<TEOF>>

MaxPad == 2         \* extra expression statements `0;` in a body or before a call

\* iterate i across 1 to n { report(i); 0; .. 0; x = i; mutable y = i; when true then { } }
\* after = 8;
ExprLoopSrc(n, e) ==
    <<k_iterate, TIdent("i"), k_across, TInt(1), k_to, TInt(n), p_lbrace,
      TIdent("report"), p_lparen, TIdent("i"), p_rparen, p_semi>>
    \o PaddingSrc(e) \o AssignSrc("x", <<TIdent("i")>>)
    \o <<k_mutable, TIdent("y"), p_eq, TIdent("i"), p_semi,
         k_when, k_true, k_then, p_lbrace, p_rbrace, p_rbrace>>
    \o AssignSrc("after", <<TInt(8)>>) \o <<TEOF>>

\* course f(p) { }  0; .. 0;  f(7);  or  f();  after = 8;
UnderCallSrc(k, argc) ==
    <<k_course, TIdent("f"), p_lparen, TIdent("p"), p_rparen, p_lbrace, p_rbrace>>
    \o PaddingSrc(k)
    \o <<TIdent("f"), p_lparen>> \o (IF argc = 1 THEN <<TInt(7)>> ELSE <<>>) \o <<p_rparen, p_semi>>
    \o AssignSrc("after", <<TInt(8)>>) \o <<TEOF>>

\* the bracket groups written after the name on the left of an `=`:
\* [0], [i], [0][1], [i][0], [i + 1], [-1]
SimpleIndexes == {<<p_lbracket, TInt(0), p_rbracket>>, <<p_lbracket, TIdent("i"), p_rbracket>>}
DeepIndexes ==
    {<<p_lbracket, TInt(0), p_rbracket, p_lbracket, TInt(1), p_rbracket>>,
     <<p_lbracket, TIdent("i"), p_rbracket, p_lbracket, TInt(0), p_rbracket>>}
ExprIndexes ==
    {<<p_lbracket, TIdent("i"), p_plus, TInt(1), p_rbracket>>,
     <<p_lbracket, p_minus, TInt(1), p_rbracket>>}
IndexShapes == SimpleIndexes \cup DeepIndexes \cup ExprIndexes

\* mutable a = [[1, 2], 3]; mutable i = 1; a<ix> = 9;
IndexAssignPrefix ==
    <<k_mutable, TIdent("a"), p_eq, p_lbracket, p_lbracket, TInt(1), p_comma, TInt(2), p_rbracket,
      p_comma, TInt(3), p_rbracket, p_semi,
      k_mutable, TIdent("i"), p_eq, TInt(1), p_semi,
      TIdent("a")>>
IndexAssignSrc(ix) == IndexAssignPrefix \o ix \o <<p_eq, TInt(9), p_semi, TEOF>>

\* what the body of the range loop below does after counting the iteration:
\* nothing, m = m - 1; i = i + 1; i = 0; m = 0;
RangeTweaks ==
    {<<>>, AssignSrc("m", <<TIdent("m"), p_minus, TInt(1)>>),
     AssignSrc("i", <<TIdent("i"), p_plus, TInt(1)>>),
     AssignSrc("i", <<TInt(0)>>), AssignSrc("m", <<TInt(0)>>)}

\* m = hi; b = 0;
\* iterate i across 1 to m { b = b + 1; <tweak> }
\* after = 8;
RangeTweakSrc(hi, tweak) ==
    AssignSrc("m", <<TInt(hi)>>) \o AssignSrc("b", <<TInt(0)>>)
    \o <<k_iterate, TIdent("i"), k_across, TInt(1), k_to, TIdent("m"), p_lbrace>>
    \o AssignSrc("b", <<TIdent("b"), p_plus, TInt(1)>>) \o tweak \o <<p_rbrace>>
    \o AssignSrc("after", <<TInt(8)>>) \o <<TEOF>>

\* purpose nested(p) { g = 1; yield 5; }
NestedDef ==
    <<k_purpose, TIdent("nested"), p_lparen, TIdent("p"), p_rparen, p_lbrace>>
    \o AssignSrc("g", <<TInt(1)>>) \o <<k_yield, TInt(5), p_semi, p_rbrace>>

\* where a definition can be nested: a function body, a block, the body of a
\* range loop or of a persist loop, a branch of a conditional
NestingPlaces == {"course", "block", "iterate", "persist", "when"}

\* course outer() { <def> } u = outer();  or  { <def> }
\* or  iterate i across 1 to 1 { <def> }  or  k = 0; persist k < 1 { k = k + 1; <def> }
\* or  when true then { <def> }
NestingSrc(place) ==
    CASE place = "course" ->
           <<k_course, TIdent("outer"), p_lparen, p_rparen, p_lbrace>> \o NestedDef \o <<p_rbrace>>
           \o AssignSrc("u", <<TIdent("outer"), p_lparen, p_rparen>>)
      [] place = "block" -> <<p_lbrace>> \o NestedDef \o <<p_rbrace>>
      [] place = "iterate" ->
           <<k_iterate, TIdent("i"), k_across, TInt(1), k_to, TInt(1), p_lbrace>>
           \o NestedDef \o <<p_rbrace>>
      [] place = "persist" ->
           AssignSrc("k", <<TInt(0)>>) \o <<k_persist, TIdent("k"), p_lt, TInt(1), p_lbrace>>
           \o AssignSrc("k", <<TIdent("k"), p_plus, TInt(1)>>) \o NestedDef \o <<p_rbrace>>
      [] place = "when" -> <<k_when, k_true, k_then, p_lbrace>> \o NestedDef \o <<p_rbrace>>

\* <nesting> r = 7; r = nested(1, .., argc); after = 8;
NestedDefSrc(place, argc) ==
    NestingSrc(place) \o AssignSrc("r", <<TInt(7)>>)
    \o AssignSrc("r", <<TIdent("nested"), p_lparen>> \o ArgsSrc(argc) \o <<p_rparen>>)
    \o AssignSrc("after", <<TInt(8)>>) \o <<TEOF>>

\* the binary operators other than `to`
OtherOps == BinOpKinds \ {"To"}

\* what stands around `1 to n` in the iterable below: nothing, `1 op` before
\* it, or `op 1` after it
Surroundings ==
    {[pre |-> <<>>, post |-> <<>>]}
    \cup {[pre |-> <<TInt(1), Tok(op)>>, post |-> <<>>] : op \in OtherOps}
    \cup {[pre |-> <<>>, post |-> <<Tok(op), TInt(1)>>] : op \in OtherOps}

\* n = 2; b = 0;
\* iterate i across <pre> 1 to n <post> { b = b + 1; }
\* after = 8;
RangeExprSrc(around) ==
    AssignSrc("n", <<TInt(2)>>) \o AssignSrc("b", <<TInt(0)>>)
    \o <<k_iterate, TIdent("i"), k_across>> \o around.pre \o <<TInt(1), k_to, TIdent("n")>>
    \o around.post \o <<p_lbrace>> \o AssignSrc("b", <<TIdent("b"), p_plus, TInt(1)>>)
    \o <<p_rbrace>> \o AssignSrc("after", <<TInt(8)>>) \o <<TEOF>>

\* the declarations of c: constant c = 5; constant c; mutable c = 5; mutable c;
ConstDecls ==
    {<<k_constant, TIdent("c"), p_eq, TInt(5), p_semi>>, <<k_constant, TIdent("c"), p_semi>>,
     <<k_mutable, TIdent("c"), p_eq, TInt(5), p_semi>>, <<k_mutable, TIdent("c"), p_semi>>}

\* what binds c again: nothing, c = 6; mutable c = 6; constant c = 6;
\* mutable c; a call of f(c), a range loop and a list loop over c
Rebindings ==
    {<<>>, AssignSrc("c", <<TInt(6)>>),
     <<k_mutable, TIdent("c"), p_eq, TInt(6), p_semi>>,
     <<k_constant, TIdent("c"), p_eq, TInt(6), p_semi>>,
     <<k_mutable, TIdent("c"), p_semi>>,
     <<k_course, TIdent("f"), p_lparen, TIdent("c"), p_rparen, p_lbrace, p_rbrace>>
       \o AssignSrc("u", <<TIdent("f"), p_lparen, TInt(6), p_rparen>>),
     <<k_iterate, TIdent("c"), k_across, TInt(1), k_to, TInt(2), p_lbrace, p_rbrace>>,
     <<k_iterate, TIdent("c"), k_across, p_lbracket, TInt(6), p_rbracket, p_lbrace, p_rbrace>>}

\* <declaration of c> seen = c; <rebinding of c> last = c;
ConstSrc(decl, rebinding) ==
    decl \o AssignSrc("seen", <<TIdent("c")>>) \o rebinding
    \o AssignSrc("last", <<TIdent("c")>>) \o <<TEOF>>

\* the operands of == and !=: those of the arithmetic operators, 1.0 and 2.0
EqOperands == Operands \cup {<<TFloat(10, 10)>>, <<TFloat(20, 10)>>}
EqOps == {"EqEq", "BangEq"}

\* first = 7; r = x op y; after = 8;
EqSrc(op, x, y) ==
    AssignSrc("first", <<TInt(7)>>) \o AssignSrc("r", x \o <<Tok(op)>> \o y)
    \o AssignSrc("after", <<TInt(8)>>) \o <<TEOF>>

\* p = 2 ** 3; e = 2 ** 3 == 8; n = 2 ** 3 != 8; l = 2 ** 3 <= 8; g = 2 ** 3 >= 8;
\* f = 2 ** 3 == 8.0;
PowerEqSrc ==
    AssignSrc("p", <<TInt(2), Tok("Power"), TInt(3)>>)
    \o AssignSrc("e", <<TInt(2), Tok("Power"), TInt(3), Tok("EqEq"), TInt(8)>>)
    \o AssignSrc("n", <<TInt(2), Tok("Power"), TInt(3), Tok("BangEq"), TInt(8)>>)
    \o AssignSrc("l", <<TInt(2), Tok("Power"), TInt(3), Tok("LtEq"), TInt(8)>>)
    \o AssignSrc("g", <<TInt(2), Tok("Power"), TInt(3), Tok("GtEq"), TInt(8)>>)
    \o AssignSrc("f", <<TInt(2), Tok("Power"), TInt(3), Tok("EqEq"), TFloat(80, 10)>>)
    \o <<TEOF>>

\* the operands of `and` and `or`: true, false, 0, "" and n, a variable nothing
\* assigns
LogicOperands == {<<k_true>>, <<k_false>>, <<TInt(0)>>, <<TStr("")>>, <<TIdent("n")>>}

\* purpose say(v, t) { u = report(v); yield t; }
\* r = say(1, x) op say(2, y);
\* after = 8;
LogicSrc(op, x, y) ==
    <<k_purpose, TIdent("say"), p_lparen, TIdent("v"), p_comma, TIdent("t"), p_rparen, p_lbrace,
      TIdent("u"), p_eq, TIdent("report"), p_lparen, TIdent("v"), p_rparen, p_semi,
      k_yield, TIdent("t"), p_semi, p_rbrace>>
    \o AssignSrc("r", <<TIdent("say"), p_lparen, TInt(1), p_comma>> \o x \o <<p_rparen, Tok(op),
                         TIdent("say"), p_lparen, TInt(2), p_comma>> \o y \o <<p_rparen>>)
    \o AssignSrc("after", <<TInt(8)>>) \o <<TEOF>>

Inputs ==
    {WhenSrc(conds) : conds \in CondVectors}
    \cup {RangeSrc(lo, hi) : lo \in RangeBounds, hi \in RangeBounds}
    \cup {PersistTrueSrc, PersistCountSrc}
    \cup {UnknownCallSrc(argc) : argc \in 0..MaxArgs}
    \cup {ListWriteSrc(i) : i \in 0..2}
    \cup {CountdownSrc(d) : d \in 0..MaxDepth}
    \cup {ExprSrc(op1, op2) : op1 \in BinOpKinds, op2 \in BinOpKinds}
    \cup {ParamsSrc(n) : n \in 0..MaxArgs}
    \cup {IndexAssignSrc(ix) : ix \in IndexShapes}
    \cup {TruthSrc(c) : c \in TruthConds} \cup {PersistZeroSrc}
    \cup {ForEachSrc(n, it, body) : n \in 0..MaxList, it \in UNION {Iterables(k) : k \in 0..MaxList},
                                    body \in LoopBodies}
    \cup {TopYieldSrc}
    \cup {EqSrc(op, x, y) : op \in EqOps, x \in EqOperands, y \in EqOperands} \cup {PowerEqSrc}
    \cup {ConstSrc(decl, rebinding) : decl \in ConstDecls, rebinding \in Rebindings}
    \cup {RangeExprSrc(around) : around \in Surroundings}
    \cup {NestedDefSrc(place, argc) : place \in NestingPlaces, argc \in 0..MaxArgs}
    \cup {RangeTweakSrc(hi, tweak) : hi \in 0..MaxRange, tweak \in RangeTweaks}
    \cup {LogicSrc(op, x, y) : op \in {"And", "Or"}, x \in LogicOperands, y \in LogicOperands}
    \cup {ExprLoopSrc(n, e) : n \in 0..MaxRange, e \in 0..MaxPad}
    \cup {UnderCallSrc(k, argc) : k \in 0..MaxPad, argc \in 0..1}
    \cup {SetSrc(t, iv) : t \in Targets, iv \in Operands}
    \cup {UnarySrc(u, op) : u \in {"Minus", "Not"}, op \in BinOpKinds}
    \cup {UnaryChainSrc(u) : u \in {"Minus", "Not"}}
    \cup {NestSrc(n, m, direct) : n \in 0..MaxList, m \in 0..MaxList, direct \in BOOLEAN}
    \cup {TickSrc(n) : n \in 0..MaxLoops}
    \cup {BudgetSrc(pad) : pad \in 0..2}
    \cup {GetSrc(t, i) : t \in Targets, i \in Operands}
    \cup {BinSrc(op, x, y) : op \in ArithOps \cup OrderOps, x \in Operands, y \in Operands}
    \cup {ShadowSrc, OrderSrc, AddSrc, DivZeroSrc, BadSrc}

-----------------------------------------------------------------------------

Init ==
    /\ \/ source \in Sources /\ tokens = <<>> /\ pc = "lex"
       \/ source = <<>> /\ tokens \in Inputs /\ pc = "parse"
    /\ exit = None
    /\ program = <<>>
    /\ perr = NoError
    /\ code = <<>>
    /\ functions = <<>>
    /\ starts = <<>>
    /\ ip = 0
    /\ steps = 0
    /\ stack = <<>>
    /\ globals = <<>>
    /\ call_stack = <<>>
    /\ reported = <<>>
    /\ diag = FALSE
    /\ halted = "no"
    /\ topSeen = 0

Next ==
    \/ LexOk
    \/ LexErr
    \/ ParseOk
    \/ ParseErr
    \/ Compile
    \/ ExecPush
    \/ ExecLoad
    \/ ExecStore
    \/ ExecArith
    \/ ExecCompare
    \/ ExecAndOr
    \/ ExecNot
    \/ ExecJump
    \/ ExecJumpFalse
    \/ ExecMakeList
    \/ ExecGetIndex
    \/ ExecSetIndex
    \/ ExecListLen
    \/ ExecCallGetInput
    \/ ExecCallReport
    \/ ExecCallUser
    \/ ExecCallUnknown
    \/ ExecReturn
    \/ ExecReturnHalt
    \/ LoopExit
    \/ StepLimitCheck

Spec == Init /\ [][Next]_vars

-----------------------------------------------------------------------------
(* Properties.                                                               *)

\* the program has been compiled: code and functions hold Codegen's output
Compiled == pc \in {"run", "post", "done", "panicked"}

\* the number of the first true condition of conds (1 = the `when` condition,
\* k + 1 = the k-th `differently`), or 0 when none is true
FirstTrue(conds) ==
    IF \E k \in DOMAIN conds : conds[k]
    THEN CHOOSE k \in DOMAIN conds : conds[k] /\ \A j \in 1..(k - 1) : ~conds[j]
    ELSE 0

\* C1: a when/differently/otherwise conditional runs exactly one body, the
\* body of the first true condition in source order or the otherwise body
\* when none is true, and execution then continues after the construct.  In
\* WhenSrc(conds) every body counts itself in n and records its number in r,
\* and the statement after the construct sets z: when the run is over n is 1,
\* r is the number of the first true condition (0 for otherwise), z is 1 and
\* the run was not cut by the step budget.
C1_WhenRunsExactlyFirstTrueBody ==
    \A conds \in CondVectors :
        (tokens = WhenSrc(conds) /\ pc = "done")
        => /\ VM_global("n") = VInt(1)
           /\ VM_global("r") = VInt(FirstTrue(conds))
           /\ VM_global("z") = VInt(1)
           /\ ~diag

\* C2: after Codegen::compile no Jump or JumpFalse emitted for a conditional
\* or a loop keeps the placeholder target 0 (offset 0 holds the jump to the
\* main entry, so no construct starts there), and every JumpFalse targets an
\* offset after itself that immediately follows a Jump: the back-jump of its
\* loop, or the jump to the end that closes the branch it guards.
C2_NoPlaceholderTargetSurvives ==
    Compiled =>
        \A i \in 2..Len(code) :
            /\ code[i].op \in {"Jump", "JumpFalse"} => code[i].t # 0
            /\ code[i].op = "JumpFalse"
               => code[i].t > i - 1 /\ code[code[i].t].op = "Jump"

\* C3: VM::run dispatches at most 10,000 instructions, every dispatched
\* instruction (jumps, calls and returns included) counts as exactly one
\* step, and `persist true { }` is stopped after exactly 10,000 dispatched
\* instructions with the maximum-steps diagnostic.
C3_StepBudget ==
    /\ [](steps <= max_steps)
    /\ []((tokens = PersistTrueSrc /\ pc \in {"post", "done"}) => steps = max_steps)
    /\ []((tokens = PersistTrueSrc /\ pc = "done") => diag)
    /\ [][Running => steps' = steps + 1]_vars

C3_PersistTrueStopped ==
    tokens = PersistTrueSrc /\ pc = "done" /\ steps = max_steps /\ diag

\* the lines `iterate i across lo to hi { report(i); }` reports
RangeLines(lo, hi) == [k \in 1..(hi - lo + 1) |-> <<VInt(lo + k - 1)>>]

\* C4: a range for-each over lo to hi whose body does not assign the loop
\* variable runs its body once for each of lo, lo + 1, .., hi in increasing
\* order and leaves hi + 1 in the variable; when lo > hi the body never runs
\* and the variable holds lo.
C4_RangeLoop ==
    \A lo \in RangeBounds, hi \in RangeBounds :
        (tokens = RangeSrc(lo, hi) /\ pc = "done")
        => /\ reported = RangeLines(lo, hi)
           /\ VM_global("i") = VInt(IF lo <= hi THEN hi + 1 ELSE lo)
           /\ ~diag

C4_RangeLoopRan ==
    /\ tokens = RangeSrc(1, MaxRange)
    /\ pc = "done"
    /\ Len(reported) = MaxRange
    /\ VM_global("i") = VInt(MaxRange + 1)

\* the instruction at ip is a Call of a name that is neither a builtin nor a
\* key of the function table
AtUnknownCall ==
    /\ Running
    /\ Instr.op = "Call"
    /\ Instr.name \notin {"report", "getInput"}
    /\ Instr.name \notin DOMAIN functions

\* C5: a Call of an unknown name does not abort: it removes exactly argc
\* values from the operand stack, pushes null, leaves the call stack and the
\* globals unchanged, and execution continues with the next instruction.
C5_UnknownCallPushesNull ==
    [][AtUnknownCall
       => /\ pc' = "run"
          /\ ip' = ip + 1
          /\ stack' = Append(SubSeq(stack, 1, Len(stack) - Instr.argc), VNull)
          /\ call_stack' = call_stack
          /\ globals' = globals]_vars

\* the unknown call of UnknownCallSrc(MaxArgs) has just been dispatched: its
\* arguments are gone and null lies on the 7 pushed before them
C5_UnknownCallDone ==
    /\ tokens = UnknownCallSrc(MaxArgs)
    /\ pc = "run"
    /\ ip > 0
    /\ code[ip].op = "Call"
    /\ code[ip].name = "undefinedFn"
    /\ stack = <<VInt(7), VNull>>

\* C6: lists are never aliased and an in-range index assignment changes only
\* the element it names: after `mutable a = [1, 2, 3]; mutable b = a;
\* a[i] = 9;` a is [1, 2, 3] with element i replaced by 9 (same length, the
\* other elements unchanged), b is still [1, 2, 3] and no other global exists.
C6_ListsNotAliased ==
    \A i \in 0..2 :
        (tokens = ListWriteSrc(i) /\ pc = "done")
        => /\ VM_global("a") = VList([<<VInt(1), VInt(2), VInt(3)>> EXCEPT ![i + 1] = VInt(9)])
           /\ VM_global("b") = VList(<<VInt(1), VInt(2), VInt(3)>>)
           /\ DOMAIN globals = {"a", "b"}

C6_ListWritten ==
    /\ tokens = ListWriteSrc(0)
    /\ pc = "done"
    /\ VM_global("a") = VList(<<VInt(9), VInt(2), VInt(3)>>)
    /\ VM_global("b") = VList(<<VInt(1), VInt(2), VInt(3)>>)

\* C7: all bindings live in one global map that no call saves or restores: a
\* Call or Return leaves the globals as they are, and after the recursive
\* chain f(d), f(d - 1), .., f(0) has returned the global x holds the 0 the
\* deepest call stored, not the 5 it held before the outermost call.
C7_OneGlobalMap ==
    /\ [][(Running /\ Instr.op \in {"Call", "Return"}) => globals' = globals]_vars
    /\ [](\A d \in 0..MaxDepth :
            (tokens = CountdownSrc(d) /\ pc = "done")
            => /\ VM_global("x") = VInt(0)
               /\ VM_global("after") = VInt(0)
               /\ ~diag)

C7_RecursionOverwroteX ==
    /\ tokens = CountdownSrc(MaxDepth)
    /\ pc = "done"
    /\ VM_global("after") = VInt(0)

\* the level of a binary operator in the binding-power table (1 binds loosest)
Level(op) ==
    CASE op = "Or" -> 1
      [] op = "And" -> 2
      [] op \in {"EqEq", "BangEq"} -> 3
      [] op \in {"Lt", "Gt", "LtEq", "GtEq"} -> 4
      [] op \in {"Plus", "Minus"} -> 5
      [] op \in {"Star", "Slash", "Percent"} -> 6
      [] op = "Power" -> 7
      [] op = "To" -> 8

\* C8: binary expressions parse by the binding-power table: in `2 op1 3 op2 2`
\* the second operator takes the 3 exactly when its level is higher, and two
\* operators of one level, power included, group to the left; `2 + 3 * 2`
\* evaluates to 8 and `2 ** 3 ** 2` to (2 ** 3) ** 2 = 64.
C8_BindingPower ==
    /\ \A op1 \in BinOpKinds, op2 \in BinOpKinds :
           (tokens = ExprSrc(op1, op2) /\ pc # "parse")
           => program =
                <<SAssign("r",
                    IF Level(op2) > Level(op1)
                    THEN EBinary(EInt(2), Tok(op1), EBinary(EInt(3), Tok(op2), EInt(2)))
                    ELSE EBinary(EBinary(EInt(2), Tok(op1), EInt(3)), Tok(op2), EInt(2)))>>
    /\ (tokens = ExprSrc("Plus", "Star") /\ pc = "done") => VM_global("r") = VInt(8)
    /\ (tokens = ExprSrc("Power", "Power") /\ pc = "done") => VM_global("r") = VFloat(64, 1)

C8_PowerChainEvaluated ==
    /\ tokens = ExprSrc("Power", "Power")
    /\ pc = "done"
    /\ program = <<SAssign("r", EBinary(EBinary(EInt(2), Tok("Power"), EInt(3)),
                                        Tok("Power"), EInt(2)))>>
    /\ VM_global("r") = VFloat(64, 1)

\* C9: a Call named report or getInput is handled by the builtin even when
\* the program defines a function of that name: it pushes no return address
\* and goes on to the next instruction, never into the user's body (in
\* ShadowSrc the bodies would set `hit`), and report pops exactly argc values
\* and pushes null.
C9_BuiltinsWin ==
    /\ [][(Running /\ Instr.op = "Call" /\ Instr.name \in {"report", "getInput"})
          => /\ call_stack' = call_stack
             /\ ip' = ip + 1
             /\ Instr.name = "report"
                => stack' = Append(SubSeq(stack, 1, Len(stack) - Instr.argc), VNull)]_vars
    /\ [](tokens = ShadowSrc => call_stack = <<>> /\ "hit" \notin DOMAIN globals)
    /\ []((tokens = ShadowSrc /\ pc = "done")
          => /\ reported = <<(<<VInt(7), VInt(8)>>)>>
             /\ VM_global("s") \in {VStr(""), VStr("ok"), VStr("7")})

C9_ShadowedBuiltinsCalled ==
    /\ tokens = ShadowSrc
    /\ {"report", "getInput"} \subseteq DOMAIN functions
    /\ pc = "done"
    /\ reported = <<(<<VInt(7), VInt(8)>>)>>
    /\ VM_global("s") = VStr("7")

\* ip is inside the code of the function bodies
InFunctionBody(p) == p > 0 /\ p < code[1].t

\* C10: execution starts at offset 0, whose jump targets the first
\* instruction after all function bodies; the top-level statements then
\* execute in source order (control never goes back to the start of an
\* earlier top-level statement); a function body is entered only through a
\* Call; and a call of a function defined later in the source resolves to its
\* entry (OrderSrc ends with seen = 2 and t = 112).
C10_TopLevelInSourceOrder ==
    /\ [](Compiled => /\ code[1].op = "Jump"
                      /\ \A f \in DOMAIN functions : functions[f] < code[1].t
                      /\ starts # <<>> => code[1].t = starts[1])
    /\ [](pc = "run" /\ steps = 0 => ip = 0)
    /\ [][pc = "run" => topSeen' >= topSeen]_vars
    /\ [][(Running /\ ~InFunctionBody(ip) /\ pc' = "run" /\ InFunctionBody(ip'))
          => Instr.op = "Call"]_vars
    /\ []((tokens = OrderSrc /\ pc = "done")
          => VM_global("seen") = VInt(2) /\ VM_global("t") = VInt(112))

\* C11: when a function with parameters p1..pn is called with n arguments,
\* then on entry to the body (after the n parameter stores) the global pi
\* holds the value of the i-th argument for every i, and the operand stack
\* below the arguments is as it was: in ParamsSrc(n) the arguments are 1..n
\* and the 7 pushed before them is all that is left on the stack.
C11_ParametersBound ==
    \A n \in 0..MaxArgs :
        (tokens = ParamsSrc(n) /\ pc = "run" /\ ip = functions["f"] + n)
        => /\ \A i \in 1..n : VM_global(ParamNames[i]) = VInt(i)
           /\ stack = <<VInt(7)>>
           /\ call_stack # <<>>

C11_BodyEntered ==
    /\ tokens = ParamsSrc(MaxArgs)
    /\ pc = "run"
    /\ ip = functions["f"] + MaxArgs
    /\ VM_global(ParamNames[1]) = VInt(1)
    /\ VM_global(ParamNames[MaxArgs]) = VInt(MaxArgs)

\* the instruction just dispatched was a Call of the user function f, and
\* control is back at its return address
ReturnedFrom(f) ==
    /\ pc = "run"
    /\ ip > 0
    /\ code[ip].op = "Call"
    /\ code[ip].name = f

\* C12: Call and Return are matched: a Call of a function in the table
\* pushes the offset of the instruction after it and enters the function; a
\* Return with a non-empty call stack pops the most recent return address and
\* resumes there with the returned value on top of the operand stack (3 for
\* add(1, 2), null where the body of f falls through); a Return with an empty
\* call stack halts: no instruction is dispatched after it.
C12_CallReturnMatched ==
    /\ [][(Running /\ Instr.op = "Call" /\ Instr.name \notin {"report", "getInput"}
              /\ Instr.name \in DOMAIN functions)
          => /\ call_stack' = Append(call_stack, ip + 1)
             /\ ip' = functions[Instr.name]
             /\ stack' = stack]_vars
    /\ [][(Running /\ Instr.op = "Return" /\ call_stack # <<>>)
          => /\ ip' = call_stack[Len(call_stack)]
             /\ call_stack' = SubSeq(call_stack, 1, Len(call_stack) - 1)
             /\ stack' = stack
             /\ pc' = "run"]_vars
    /\ [][(Running /\ Instr.op = "Return" /\ call_stack = <<>>) => pc' = "post"]_vars
    /\ [][(pc \in {"post", "done"})
          => (steps' = steps /\ ip' = ip /\ stack' = stack /\ globals' = globals)]_vars
    /\ []((tokens = AddSrc /\ ReturnedFrom("add")) => stack = <<VInt(3)>>)
    /\ [](\A n \in 0..MaxArgs :
            (tokens = ParamsSrc(n) /\ ReturnedFrom("f")) => stack = <<VInt(7), VNull>>)

C12_Returned ==
    /\ tokens = AddSrc
    /\ ReturnedFrom("add")
    /\ stack = <<VInt(3)>>
    /\ call_stack = <<>>

\* C13: when lexing or parsing fails the failure is a Lex or Parse error with
\* no partial token list or statement list, lexing stops at the first
\* character it rejects (the text before it lexes without error), and the
\* driver runs neither code generation nor the VM: no code exists, no
\* instruction is dispatched, nothing follows the failure and the exit status
\* is 1.
C13_FailureStopsThePipeline ==
    /\ [][(pc = "lex" /\ ~Lexer_lex(source).ok)
          => (pc' = "failed" /\ perr' = Lexer_lex(source) /\ perr'.kind = "Lex"
              /\ tokens' = <<>>)]_vars
    /\ [][(pc = "parse" /\ ~Parser_parse(tokens).ok)
          => (pc' = "failed" /\ perr' = Parser_parse(tokens) /\ perr'.kind = "Parse"
              /\ program' = <<>>)]_vars
    /\ []((pc = "failed" /\ perr.kind = "Lex")
          => Lexer_lex(SubSeq(source, 1, perr.at)).ok)
    /\ [](pc = "failed"
          => /\ exit = Some(1)
             /\ program = <<>> /\ code = <<>> /\ functions = <<>>
             /\ steps = 0 /\ stack = <<>> /\ globals = <<>> /\ reported = <<>>)
    /\ [][pc # "failed"]_vars

\* lexing failed at the # after three tokens had been read
C13_LexFailed ==
    /\ source = LateHashText
    /\ pc = "failed"
    /\ perr.kind = "Lex"
    /\ perr.at = Len(LateHashText) - 1
    /\ tokens = <<>>
    /\ exit = Some(1)

\* C14: whenever Lexer::lex succeeds the token sequence holds exactly one
\* EOF, as its last element; lex ends on every input, with tokens or with an
\* error; and an unterminated string literal is no error: a text that opens
\* a quote and never closes it lexes to a Str token holding the rest of the
\* input, followed by EOF.
C14_LexEndsWithOneEOF ==
    /\ [][(pc = "lex" /\ pc' = "parse")
          => /\ tokens' # <<>>
             /\ tokens'[Len(tokens')] = TEOF
             /\ \A i \in 1..(Len(tokens') - 1) : tokens'[i] # TEOF]_vars
    /\ [](pc = "lex" => Lexer_lex(source).ok \in BOOLEAN)
    /\ [][pc = "lex" => pc' \in {"parse", "failed"}]_vars
    /\ []((pc \notin {"lex", "failed"} /\ source # <<>> /\ Head(source) = "\""
              /\ \A i \in 2..Len(source) : source[i] # "\"")
          => tokens = <<TStr(Concat(Tail(source))), TEOF>>)
    /\ []((pc \notin {"lex", "failed"} /\ source = CommentText)
          => tokens = <<TIdent("w"), Tok("Eq"), TStr("hi"), TEOF>>)
    /\ []((pc = "failed" /\ source # <<>> /\ Head(source) = "\""
              /\ \A i \in 2..Len(source) : source[i] # "\"")
          => perr.kind = "Parse")

\* the text "a followed by a blank, lexed to one Str token and EOF
C14_UnterminatedStringLexed ==
    /\ source = <<"\"", "a", " ">>
    /\ pc = "failed"
    /\ perr.kind = "Parse"
    /\ tokens = <<TStr("a "), TEOF>>

\* C15: a statement `a[i] = 9;` whose index is one integer literal or one
\* identifier parses as the assignment of an index-write expression on a to
\* a; the deeper target `a[i][j] = 9;` is rejected with "Invalid assignment
\* target"; an index that is any other expression (`a[i + 1]`, `a[-1]`) is
\* not taken as an assignment: the statement is parsed as an expression and
\* the parse fails where a semicolon is expected and the `=` is found.
C15_IndexAssignmentTargets ==
    /\ [][(pc = "parse" /\ \E ix \in SimpleIndexes : tokens = IndexAssignSrc(ix))
          => /\ pc' = "codegen"
             /\ Len(program') = 3
             /\ program'[3] =
                    SAssign("a", EIndex(EIdent("a"),
                                        IF tokens[21].k = "Int" THEN EInt(tokens[21].n)
                                                                ELSE EIdent(tokens[21].s),
                                        Some(EInt(9))))]_vars
    /\ [][(pc = "parse" /\ \E ix \in DeepIndexes : tokens = IndexAssignSrc(ix))
          => /\ pc' = "failed"
             /\ perr'.kind = "Parse"
             /\ perr'.msg = "Invalid assignment target"]_vars
    /\ [][(pc = "parse" /\ \E ix \in ExprIndexes : tokens = IndexAssignSrc(ix))
          => /\ pc' = "failed"
             /\ perr'.kind = "Parse"
             /\ perr'.msg = "Expected" /\ perr'.expected = "Semicolon" /\ perr'.found = "Eq"
             /\ tokens[perr'.at + 1] = p_eq
             /\ perr'.at = Len(tokens) - 4]_vars

\* `a[0][1] = 9;` was rejected as an assignment target
C15_DeepTargetRejected ==
    /\ tokens = IndexAssignSrc(<<p_lbracket, TInt(0), p_rbracket, p_lbracket, TInt(1), p_rbracket>>)
    /\ pc = "failed"
    /\ perr.msg = "Invalid assignment target"

\* C16: JumpFalse, And, Or and Not take every value as true except boolean
\* false and null: integer 0, the empty string and the empty list are true,
\* so `when 0 then { r = 1; }` runs its body, `persist 0 { }` never leaves
\* its loop (the step budget stops it), and `c and true`, `c or false` and
\* `not c` follow the same reading of c.
C16_Truthiness ==
    /\ [][(Running /\ Instr.op = "JumpFalse")
          => (ip' = Instr.t <=> VM_top(stack) \in {VBool(FALSE), VNull})]_vars
    /\ [][(Running /\ Instr.op = "Not")
          => VM_top(stack') = VBool(VM_top(stack) \in {VBool(FALSE), VNull})]_vars
    /\ [][(Running /\ Instr.op \in {"And", "Or"})
          => VM_top(stack') =
                 VBool(IF Instr.op = "And"
                       THEN VM_top(stack) \notin {VBool(FALSE), VNull}
                            /\ VM_top(VM_rest(stack)) \notin {VBool(FALSE), VNull}
                       ELSE VM_top(stack) \notin {VBool(FALSE), VNull}
                            \/ VM_top(VM_rest(stack)) \notin {VBool(FALSE), VNull})]_vars
    /\ [](\A c \in TruthConds :
             (tokens = TruthSrc(c) /\ pc = "done")
             => /\ VM_global("r") = VInt(IF c \in {<<k_false>>, <<TIdent("n")>>} THEN 0 ELSE 1)
                /\ VM_global("a") = VBool(c \notin {<<k_false>>, <<TIdent("n")>>})
                /\ VM_global("o") = VBool(c \notin {<<k_false>>, <<TIdent("n")>>})
                /\ VM_global("t") = VBool(c \in {<<k_false>>, <<TIdent("n")>>})
                /\ ~diag)
    /\ []((tokens = PersistZeroSrc /\ pc = "run") => ip < Len(code))
    /\ []((tokens = PersistZeroSrc /\ pc = "done") => (steps = max_steps /\ diag))

\* `when 0 then { r = 1; }` ran its body and `not 0` gave false
C16_ZeroIsTrue ==
    /\ tokens = TruthSrc(<<TInt(0)>>)
    /\ pc = "done"
    /\ VM_global("r") = VInt(1)
    /\ VM_global("t") = VBool(FALSE)

\* the instruction at ip is one of Add, Sub, Mul, Div, Mod
AtArith == Running /\ Instr.op \in {"Add", "Sub", "Mul", "Div", "Mod"}

AtIntegerDivisionByZero ==
    /\ Running /\ Instr.op \in {"Div", "Mod"}
    /\ VM_top(stack) = VInt(0) /\ VM_top(VM_rest(stack)).t = "Int"

NumberOf(v) ==
    CASE v.t = "Int" -> <<v.n, 1>>
      [] v.t = "Float" -> <<v.num, v.den>>
      [] OTHER -> <<0, 1>>

\* left < right on the numbers of two values (denominators are positive)
NumberLess(left, right) ==
    NumberOf(left)[1] * NumberOf(right)[2] < NumberOf(right)[1] * NumberOf(left)[2]

\* C18: Lt, Gt, Le and Ge never fail and always push a boolean, the
\* comparison of the two operands converted to numbers, where a string, a
\* boolean, null and a list convert to 0: `"abc" < 1` is true and
\* `n >= 0`, with n null, is true.
C18_OrderingComparesNumbers ==
    /\ [][(Running /\ Instr.op \in {"Lt", "Gt", "Le", "Ge"})
          => /\ pc' = "run"
             /\ Len(stack) >= 2
             /\ NumberOf(VM_top(stack))[2] > 0 /\ NumberOf(VM_top(VM_rest(stack)))[2] > 0
             /\ stack' =
                  Append(SubSeq(stack, 1, Len(stack) - 2),
                         VBool(CASE Instr.op = "Lt" -> NumberLess(VM_top(VM_rest(stack)), VM_top(stack))
                                 [] Instr.op = "Gt" -> NumberLess(VM_top(stack), VM_top(VM_rest(stack)))
                                 [] Instr.op = "Le" -> ~NumberLess(VM_top(stack), VM_top(VM_rest(stack)))
                                 [] Instr.op = "Ge" -> ~NumberLess(VM_top(VM_rest(stack)), VM_top(stack))))]_vars
    /\ []((tokens = BinSrc("Lt", <<TStr("abc")>>, <<TInt(1)>>) /\ pc = "done")
          => VM_global("r") = VBool(TRUE))
    /\ []((tokens = BinSrc("GtEq", <<TIdent("n")>>, <<TInt(0)>>) /\ pc = "done")
          => VM_global("r") = VBool(TRUE))
    /\ []((/\ Len(tokens) > 2 /\ tokens[1] = TIdent("before")
           /\ \E i \in 1..Len(tokens) : tokens[i].k \in OrderOps
           /\ pc \notin {"parse", "codegen", "run", "post"})
          => (pc = "done" /\ VM_global("r").t = "Bool" /\ VM_global("after") = VInt(8)))

\* `"abc" < 1` left true in r
C18_StringLessThanOne ==
    /\ tokens = BinSrc("Lt", <<TStr("abc")>>, <<TInt(1)>>)
    /\ pc = "done"
    /\ VM_global("r") = VBool(TRUE)

\* the integer GetIndex reads in the popped index: the integer itself, a
\* float cut toward zero, and 0 for every other value
IndexOf(v) ==
    CASE v.t = "Int" -> v.n
      [] v.t = "Float" -> IF v.num >= 0 THEN v.num \div v.den ELSE -((-v.num) \div v.den)
      [] OTHER -> 0

\* the two-element list of the indexing programs
List45 == <<p_lbracket, TInt(4), p_comma, TInt(5), p_rbracket>>

\* C19: GetIndex is total: it pops the index and the target and pushes one
\* value, the element at the index when the target is a list and
\* 0 <= index < length, and null when the target is not a list or the index
\* is out of range, a negative index included; the run is never aborted.
C19_GetIndexTotal ==
    /\ [][(Running /\ Instr.op = "GetIndex")
          => /\ pc' = "run" /\ exit' = exit
             /\ Len(stack) >= 2
             /\ stack' =
                  Append(SubSeq(stack, 1, Len(stack) - 2),
                         IF /\ stack[Len(stack) - 1].t = "List"
                            /\ 0 <= IndexOf(stack[Len(stack)])
                            /\ IndexOf(stack[Len(stack)]) < Len(stack[Len(stack) - 1].items)
                         THEN stack[Len(stack) - 1].items[IndexOf(stack[Len(stack)]) + 1]
                         ELSE VNull)]_vars
    /\ [](\A i \in 0..1 :
             (tokens = GetSrc(List45, <<TInt(i)>>) /\ pc = "done") => VM_global("r") = VInt(4 + i))
    /\ []((tokens = GetSrc(List45, <<TInt(2)>>) /\ pc = "done") => VM_global("r") = VNull)
    /\ []((tokens = GetSrc(List45, <<p_minus, TInt(1)>>) /\ pc = "done") => VM_global("r") = VNull)
    /\ []((tokens = GetSrc(<<TInt(3)>>, <<TInt(0)>>) /\ pc = "done") => VM_global("r") = VNull)
    /\ []((tokens = GetSrc(<<TStr("abc")>>, <<TInt(0)>>) /\ pc = "done") => VM_global("r") = VNull)
    /\ []((/\ Len(tokens) > 2 /\ tokens[1] = TIdent("before")
           /\ \A i \in 1..Len(tokens) : tokens[i].k \notin (ArithOps \cup OrderOps) \ {"Minus"}
           /\ pc \notin {"parse", "codegen", "run", "post"})
          => (pc = "done" /\ VM_global("after") = VInt(8)))

\* [4, 5][-1] left null in r and the statement after it ran
C19_NegativeIndexIsNull ==
    /\ tokens = GetSrc(List45, <<p_minus, TInt(1)>>)
    /\ pc = "done"
    /\ VM_global("r") = VNull
    /\ VM_global("after") = VInt(8)

\* the lines `report(v)` prints over [4, .., 3 + n]
ElementLines(n) == [k \in 1..n |-> <<VInt(3 + k)>>]

\* C20: a list for-each whose body holds no other list for-each, calls no
\* function that runs one and assigns neither _iter_list nor _iter_index
\* evaluates its iterable once (g() reports its single line once), runs its
\* body once per element with v bound to the elements in index order, and
\* visits the same elements whatever the body assigns to the source list
\* variable a.
C20_ListForEach ==
    /\ []((pc = "done" /\ Len(tokens) > 2 /\ tokens[2] = TIdent("g")) =>
          \A n \in 0..MaxList, body \in LoopBodies :
             (tokens = ForEachSrc(n, <<TIdent("a")>>, body) /\ pc = "done")
             => /\ reported = ElementLines(n)
                /\ VM_global("_iter_list") = VList([k \in 1..n |-> VInt(3 + k)])
                /\ VM_global("_iter_index") = VInt(n)
                /\ VM_global("v") = (IF n = 0 THEN VNull ELSE VInt(3 + n))
                /\ VM_global("after") = VInt(8)
                /\ ~diag)
    /\ []((pc = "done" /\ Len(tokens) > 2 /\ tokens[2] = TIdent("g")) =>
          \A n \in 0..MaxList, body \in LoopBodies :
             (tokens = ForEachSrc(n, <<TIdent("g"), p_lparen, p_rparen>>, body) /\ pc = "done")
             => /\ reported = <<<<VInt(0)>>>> \o ElementLines(n)
                /\ VM_global("_iter_index") = VInt(n)
                /\ VM_global("after") = VInt(8)
                /\ ~diag)
    /\ []((pc = "done" /\ Len(tokens) > 2 /\ tokens[2] = TIdent("g")) =>
          \A n \in 0..MaxList, m \in 0..MaxList, body \in LoopBodies :
             (tokens = ForEachSrc(n, ListSrc(m), body) /\ pc = "done")
             => /\ reported = ElementLines(m)
                /\ VM_global("_iter_index") = VInt(m)
                /\ ~diag)
    /\ []((Len(tokens) > 2 /\ tokens[2] = TIdent("g") /\ pc \in {"failed", "panicked"}) => FALSE)

\* the loop over a visited 4, 5, .., 3 + MaxList although its body assigned a = [9]
C20_VisitedAllAfterAssignment ==
    /\ tokens = ForEachSrc(MaxList, <<TIdent("a")>>, AssignSrc("a", <<p_lbracket, TInt(9), p_rbracket>>))
    /\ pc = "done"
    /\ reported = ElementLines(MaxList)
    /\ VM_global("a") = VList(<<VInt(9)>>)

RECURSIVE TopLevelCode(_, _)
\* the code c followed by the code of every statement of stmts that is not
\* a function or procedure definition, in source order
TopLevelCode(c, stmts) ==
    IF stmts = <<>> THEN c
    ELSE IF Head(stmts).s \in {"Course", "Purpose"}
         THEN TopLevelCode(c, Tail(stmts))
         ELSE Let(Codegen_stmt(c, Head(stmts)), LAMBDA c1 : TopLevelCode(c1, Tail(stmts)))

\* C21: compile emits code, in source order, for every top-level statement
\* that is not a function or procedure definition, a top-level `yield`
\* included, and then appends PushNull, Return: `r = 1; yield 5; r = 2;`
\* halts at the yield with r = 1.
C21_EveryTopLevelStatementCompiled ==
    /\ [][pc = "codegen"
          => code' = Codegen_emit(Codegen_emit(
                         TopLevelCode(Codegen_step1(program).code, program), PushNull), Return)]_vars
    /\ []((tokens = TopYieldSrc /\ pc = "done") => VM_global("r") = VInt(1))

\* C22: the maximum-steps diagnostic is emitted if and only if the step
\* budget cut the run short; a run that halts by a Return with an empty call
\* stack, or by running past the end of the code, never emits it, whatever
\* the number of instructions it dispatched.
C22_DiagnosticIffTruncated ==
    pc = "done" => (diag <=> halted = "budget")

\* the run is one of the counted persist loops, compiled
InTickLoop == Len(tokens) > 2 /\ tokens[2] = TIdent("tick") /\ Compiled

\* C23: `persist cond { body }` evaluates cond before every iteration (the
\* back-jump targets the first instruction of the condition), runs the body
\* once per truthy evaluation, and on the first falsy evaluation continues
\* at the instruction right after the back-jump without running the body;
\* the condition value is popped, so the loop head is reached with the same
\* operand-stack depth each time.  In TickSrc(n) the loop is the 4th
\* statement: c counts the evaluations of the condition and b the runs of
\* the body.
C23_PersistLoop ==
    /\ [](InTickLoop
          => /\ code[starts[5]] = Jump(starts[4])
             /\ \E j \in (starts[4] + 1)..starts[5] :
                   /\ code[j] = JumpFalse(starts[5])
                   /\ \A i \in (starts[4] + 1)..starts[5] : code[i].op = "JumpFalse" => i = j)
    /\ []((InTickLoop /\ pc = "run" /\ ip = starts[4] /\ steps > 0)
          => (stack = <<>> /\ call_stack = <<>> /\ VM_global("c") = VM_global("b")))
    /\ [][(InTickLoop /\ Running /\ Instr.op = "JumpFalse")
          => /\ VM_global("c") = VInt(VM_global("b").n + 1)
             /\ ip' = (IF VM_top(stack) \in {VBool(FALSE), VNull} THEN starts[5] ELSE ip + 1)
             /\ stack' = <<>>]_vars
    /\ [][(InTickLoop /\ Running /\ VM_global("b") # VNull /\ VM_global("b")' # VM_global("b"))
          => /\ ip > starts[4] /\ ip < starts[5]
             /\ VM_global("b")' = VM_global("c")
             /\ \E n \in 0..MaxLoops : tokens = TickSrc(n) /\ VM_global("c").n <= n]_vars
    /\ [](\A n \in 0..MaxLoops :
             (tokens = TickSrc(n) /\ pc = "done")
             => /\ VM_global("c") = VInt(n + 1)
                /\ VM_global("b") = VInt(n)
                /\ VM_global("after") = VInt(8)
                /\ ~diag)

\* the loop whose condition was truthy MaxLoops times has ended
C23_LoopEnded ==
    /\ tokens = TickSrc(MaxLoops)
    /\ pc = "done"
    /\ VM_global("c") = VInt(MaxLoops + 1)
    /\ VM_global("b") = VInt(MaxLoops)

\* C24: a list for-each run inside the body of another one, directly or
\* through a called function, overwrites the shared _iter_list and
\* _iter_index; when it ends _iter_index is the inner list's length, the
\* outer increment and guard then fail, and the body of a non-empty outer
\* loop runs exactly once whatever the outer list's length: NestSrc(n, m, _)
\* reports the first outer element, then the m inner elements, and nothing
\* more.
C24_NestedForEachRunsOuterOnce ==
    /\ []((pc = "done" /\ Len(tokens) > 2 /\ tokens[2] = TIdent("inner")) =>
          \A n \in 0..MaxList, m \in 0..MaxList, direct \in BOOLEAN :
             tokens = NestSrc(n, m, direct)
             => /\ reported = (IF n = 0 THEN <<>> ELSE <<<<VInt(4)>>>> \o ElementLines(m))
                /\ VM_global("_iter_index") = VInt(IF n = 0 THEN 0 ELSE m + 1)
                /\ VM_global("_iter_list") = VList([k \in 1..(IF n = 0 THEN 0 ELSE m) |-> VInt(3 + k)])
                /\ VM_global("after") = VInt(8)
                /\ ~diag)
    /\ [][(Len(tokens) > 2 /\ tokens[2] = TIdent("inner") /\ Running
           /\ Instr.op = "JumpFalse" /\ ip' = Instr.t)
          => /\ VM_global("_iter_list").t = "List"
             /\ VM_global("_iter_index") =
                    VInt(Len(VM_global("_iter_list").items)
                         + (IF Instr.t = starts[3] /\ VM_global("v") # VNull THEN 1 ELSE 0))]_vars

\* the outer loop over MaxList elements ran its body once, the inner loop
\* MaxList times
C24_OuterRanOnce ==
    /\ tokens = NestSrc(MaxList, MaxList, TRUE)
    /\ pc = "done"
    /\ Len(reported) = 1 + MaxList
    /\ VM_global("v") = VInt(4)

\* the operators a unary operand absorbs: additive, multiplicative, power, range
AbsorbedOps == {"Plus", "Minus", "Star", "Slash", "Percent", "Power", "To"}

\* C25: the operand of a unary minus or not is parsed with minimum binding
\* power 9: it absorbs every following additive, multiplicative, power and
\* range operator and stops before relational, equality, and, or.  `-2 + 3`
\* is -(2 + 3) = -5 and `not 2 + 3` is not (2 + 3), while `-2 < 3` is
\* (-2) < 3 and `not 2 == 3` is (not 2) == 3; `-2 * 3 < 4 or false` is
\* ((-(2 * 3)) < 4) or false.
C25_UnaryOperand ==
    /\ [][pc = "parse" =>
          \A u \in {"Minus", "Not"} :
             /\ \A op \in BinOpKinds :
                   tokens = UnarySrc(u, op)
                   => program' =
                        <<SAssign("r",
                            IF op \in AbsorbedOps
                            THEN EUnary(Tok(u), EBinary(EInt(2), Tok(op), EInt(3)))
                            ELSE EBinary(EUnary(Tok(u), EInt(2)), Tok(op), EInt(3)))>>
             /\ tokens = UnaryChainSrc(u)
                => program' =
                     <<SAssign("r",
                         EBinary(EBinary(EUnary(Tok(u), EBinary(EInt(2), Tok("Star"), EInt(3))),
                                         Tok("Lt"), EInt(4)),
                                 Tok("Or"), EBool(FALSE)))>>]_vars
    /\ []((tokens = UnarySrc("Minus", "Plus") /\ pc = "done") => VM_global("r") = VInt(-5))
    /\ []((tokens = UnarySrc("Not", "Plus") /\ pc = "done") => VM_global("r") = VBool(FALSE))
    /\ []((tokens = UnarySrc("Minus", "Lt") /\ pc = "done") => VM_global("r") = VBool(TRUE))
    /\ []((tokens = UnarySrc("Not", "EqEq") /\ pc = "done") => VM_global("r") = VBool(FALSE))
    /\ []((tokens = UnaryChainSrc("Minus") /\ pc = "done") => VM_global("r") = VBool(TRUE))

\* `r = -2 + 3;` was parsed as -(2 + 3) and left -5 in r
C25_MinusAbsorbedSum ==
    /\ tokens = UnarySrc("Minus", "Plus")
    /\ pc = "done"
    /\ program = <<SAssign("r", EUnary(Tok("Minus"), EBinary(EInt(2), Tok("Plus"), EInt(3))))>>
    /\ VM_global("r") = VInt(-5)

\* the run is one of the index-write programs SetSrc
InSetSrc == Len(tokens) > 8 /\ tokens[1] = k_mutable /\ tokens[2] = TIdent("a")
            /\ tokens[Len(tokens) - 11] = TIdent("a") /\ tokens[Len(tokens) - 10] = p_lbracket
            /\ tokens[Len(tokens) - 4] = TIdent("after")

\* C26: an index assignment `a[i] = 9` whose index is out of range, or whose
\* variable holds no list, does not leave a as it was: SetIndex pushes null
\* and the store-back that follows it binds a to null, so the list a held is
\* lost; an index inside the list replaces that one element.
C26_FailedIndexWriteStoresNull ==
    /\ [](Compiled => \A j \in 1..Len(code) :
                         code[j].op = "SetIndex" => (j < Len(code) /\ code[j + 1].op = "Store"))
    /\ [][(Running /\ Instr.op = "SetIndex")
          => /\ Len(stack) >= 3
             /\ stack' =
                  Append(SubSeq(stack, 1, Len(stack) - 3),
                         IF /\ stack[Len(stack) - 2].t = "List"
                            /\ 0 <= IndexOf(stack[Len(stack) - 1])
                            /\ IndexOf(stack[Len(stack) - 1]) < Len(stack[Len(stack) - 2].items)
                         THEN VList([stack[Len(stack) - 2].items
                                        EXCEPT ![IndexOf(stack[Len(stack) - 1]) + 1] = stack[Len(stack)]])
                         ELSE VNull)]_vars
    /\ [][(InSetSrc /\ Running /\ Instr = Store("a") /\ code[ip].op = "SetIndex")
          => VM_global("a")' =
                (IF /\ VM_global("a").t = "List"
                    /\ 0 <= IndexOf(VM_global("i"))
                    /\ IndexOf(VM_global("i")) < Len(VM_global("a").items)
                 THEN VList([VM_global("a").items EXCEPT ![IndexOf(VM_global("i")) + 1] = VInt(9)])
                 ELSE VNull)]_vars
    /\ []((tokens = SetSrc(List45, <<TInt(2)>>) /\ pc = "done")
          => (VM_global("a") = VNull /\ VM_global("after") = VInt(8)))
    /\ []((tokens = SetSrc(List45, <<p_minus, TInt(1)>>) /\ pc = "done") => VM_global("a") = VNull)
    /\ []((tokens = SetSrc(List45, <<TInt(1)>>) /\ pc = "done")
          => VM_global("a") = VList(<<VInt(4), VInt(9)>>))
    /\ []((tokens = SetSrc(<<TInt(3)>>, <<TInt(0)>>) /\ pc = "done") => VM_global("a") = VNull)
    /\ []((tokens = SetSrc(<<TStr("abc")>>, <<TInt(0)>>) /\ pc = "done") => VM_global("a") = VNull)

\* a = [4, 5]; a[2] = 9; left null in a
C26_ListLost ==
    /\ tokens = SetSrc(List45, <<TInt(2)>>)
    /\ pc = "done"
    /\ VM_global("a") = VNull
    /\ VM_global("after") = VInt(8)

\* the expression-statement loops: at the loop head, two instructions after
\* the start of the loop statement, the stack holds 1 + e values for each
\* iteration made so far, and they are all still there at the end, under the
\* null of the trailing PushNull
ExprLoopKeepsValues ==
    (pc \in {"run", "done"} /\ Len(tokens) > 6 /\ tokens[1] = k_iterate /\ tokens[5] = k_to) =>
    \A n \in 0..MaxRange, e \in 0..MaxPad :
       tokens = ExprLoopSrc(n, e)
       => /\ (pc = "run" /\ ip = starts[1] + 2)
             => Len(stack) = (VM_global("i").n - 1) * (1 + e)
          /\ pc = "done"
             => (Len(stack) = n * (1 + e) + 1 /\ VM_global("after") = VInt(8) /\ ~diag)

\* the depth of the stack when `after = 8;` starts in UnderCallSrc(k, argc),
\* if each of the k + 1 expression statements before it left one value
CallKeepsValues(argcs) ==
    (pc = "run" /\ Len(tokens) > 2 /\ tokens[2] = TIdent("f") /\ tokens[4] = TIdent("p")) =>
    \A k \in 0..MaxPad, argc \in argcs :
       (tokens = UnderCallSrc(k, argc) /\ ip = starts[Len(starts)] /\ call_stack = <<>>)
       => Len(stack) = k + 1

InLogicSrc == Len(tokens) > 2 /\ tokens[2] = TIdent("say")

\* C28: `and` and `or` do not short-circuit: both operands are evaluated,
\* left then right, before And or Or executes, so the report in the right
\* operand of `say(1, x) op say(2, y)` happens whatever x is, after the one in
\* the left operand; And and Or always push a boolean.
C28_AndOrEvaluateBothOperands ==
    /\ [][(Running /\ Instr.op \in {"And", "Or"})
          => (VM_top(stack') \in {VBool(TRUE), VBool(FALSE)}
              /\ Len(stack') = Len(stack) - 1)]_vars
    /\ []((InLogicSrc /\ Running /\ Instr.op \in {"And", "Or"})
          => (reported = <<<<VInt(1)>>, <<VInt(2)>>>> /\ call_stack = <<>>))
    /\ []((InLogicSrc /\ pc = "done")
          => \A op \in {"And", "Or"}, x \in LogicOperands, y \in LogicOperands :
                tokens = LogicSrc(op, x, y)
                => /\ reported = <<<<VInt(1)>>, <<VInt(2)>>>>
                   /\ VM_global("r") =
                          VBool(IF op = "And"
                                THEN x \notin {<<k_false>>, <<TIdent("n")>>}
                                     /\ y \notin {<<k_false>>, <<TIdent("n")>>}
                                ELSE x \notin {<<k_false>>, <<TIdent("n")>>}
                                     \/ y \notin {<<k_false>>, <<TIdent("n")>>})
                   /\ VM_global("after") = VInt(8)
                   /\ ~diag)

\* `say(1, false) and say(2, true)` reported 2 although the left operand is false
C28_RightOperandRanAfterFalse ==
    /\ tokens = LogicSrc("And", <<k_false>>, <<k_true>>) /\ pc = "done"
    /\ reported = <<<<VInt(1)>>, <<VInt(2)>>>>
    /\ VM_global("r") = VBool(FALSE)

\* the program is one of RangeTweakSrc
InRangeTweakSrc == Len(tokens) > 9 /\ tokens[1] = TIdent("m") /\ tokens[9] = k_iterate

\* the iterations of `iterate i across 1 to m` with m = hi at the start and
\* the tweak at the end of its body; -1 when the loop has no last iteration
RangeIterations(hi, tweak) ==
    CASE tweak = <<>> -> hi
      [] tweak = AssignSrc("m", <<TIdent("m"), p_minus, TInt(1)>>) -> (hi + 1) \div 2
      [] tweak = AssignSrc("i", <<TIdent("i"), p_plus, TInt(1)>>) -> (hi + 1) \div 2
      [] tweak = AssignSrc("i", <<TInt(0)>>) -> IF hi = 0 THEN 0 ELSE -1
      [] tweak = AssignSrc("m", <<TInt(0)>>) -> IF hi = 0 THEN 0 ELSE 1

\* C29: a range for-each evaluates its upper bound before every iteration
\* and keeps its loop variable in an ordinary global, so assignments in the
\* body to the loop variable or to a variable of the upper bound change the
\* number of iterations: `m = m - 1;` and `i = i + 1;` halve it, `m = 0;`
\* ends the loop after one iteration, and `i = 0;` keeps the guard true
\* until the step budget stops the VM.
C29_RangeLoopRereadsBoundAndVariable ==
    /\ (InRangeTweakSrc /\ pc = "done")
       => \A hi \in 0..MaxRange, tweak \in RangeTweaks :
             tokens = RangeTweakSrc(hi, tweak)
             => IF RangeIterations(hi, tweak) = -1
                THEN /\ diag /\ halted = "budget" /\ steps = max_steps
                     /\ VM_global("after") = VNull
                     /\ VM_global("i") \in {VInt(0), VInt(1)}
                ELSE /\ VM_global("b") = VInt(RangeIterations(hi, tweak))
                     /\ VM_global("after") = VInt(8)
                     /\ VM_global("i") \in {VInt(k) : k \in 1..(MaxRange + 2)}
                     /\ stack = <<VNull>>
                     /\ ~diag
    /\ (InRangeTweakSrc /\ Running /\ Instr.op = "Jump" /\ Instr.t < ip)
       => /\ code[Instr.t + 1] = Load("i")
          /\ code[Instr.t + 2] = Load("m")
          /\ code[Instr.t + 3] = IR0("Le")
          /\ stack = <<>>

\* with m = MaxRange at the start, `m = m - 1;` in the body left the loop
\* after fewer than MaxRange iterations
C29_ShrinkingBoundEndedEarly ==
    /\ tokens = RangeTweakSrc(MaxRange, AssignSrc("m", <<TIdent("m"), p_minus, TInt(1)>>))
    /\ pc = "done"
    /\ VM_global("b") = VInt((MaxRange + 1) \div 2)
    /\ VM_global("b") # VInt(MaxRange)

\* the program is one of NestedDefSrc
InNestedDefSrc == \E i \in DOMAIN tokens : tokens[i] = TIdent("nested")

InRangeExprSrc == Len(tokens) > 9 /\ tokens[1] = TIdent("n") /\ tokens[9] = k_iterate

\* the expression `1 to n`
OneToN == EBinary(EInt(1), k_to, EIdent("n"))

\* C31: a for-each is a range loop only when `to` is the top-level operator
\* of its iterable, and `to` binds tighter than every other binary operator:
\* `1 to n + 1` parses as `(1 to n) + 1` and `1 + 1 to n` as `1 + (1 to n)`;
\* such a loop is compiled in list shape, its iterable is no list (null for
\* `(1 to n) + 1`), so its length is 0, the body never runs and i is never
\* assigned.
C31_RangeOnlyWhenToIsOutermost ==
    (InRangeExprSrc /\ pc \in {"run", "post", "done"})
    => \A around \in Surroundings :
          tokens = RangeExprSrc(around)
          => IF around.pre = <<>> /\ around.post = <<>>
             THEN /\ program[3].iterable = OneToN
                  /\ \A k \in DOMAIN code : code[k].op # "ListLen"
                  /\ pc = "done" => (VM_global("b") = VInt(2) /\ VM_global("i") = VInt(3)
                                     /\ VM_global("after") = VInt(8))
             ELSE /\ program[3].iterable.e = "Binary"
                  /\ program[3].iterable.op.k # "To"
                  /\ around.post # <<>>
                     => (program[3].iterable.left = OneToN
                         /\ program[3].iterable.op = around.post[1]
                         /\ program[3].iterable.right = EInt(1))
                  /\ around.pre # <<>>
                     => (program[3].iterable.right = OneToN
                         /\ program[3].iterable.op = around.pre[2]
                         /\ program[3].iterable.left = EInt(1))
                  /\ \E k \in DOMAIN code : code[k] = Store("_iter_list")
                  /\ \E k \in DOMAIN code : code[k].op = "ListLen"
                  /\ VM_global("i") = VNull
                  /\ VM_global("b") \in {VNull, VInt(0)}
                  /\ VM_global("_iter_list").t # "List"
                  /\ VM_global("_iter_index") \in {VNull, VInt(0)}
                  /\ pc = "done"
                     => /\ VM_global("b") = VInt(0)
                        /\ VM_global("after") = VInt(8)
                        /\ VM_global("_iter_index") = VInt(0)
                        /\ around.post = <<Tok("Plus"), TInt(1)>>
                           => VM_global("_iter_list") = VNull
                        /\ ~diag

\* `iterate i across 1 to n + 1 { b = b + 1; }` with n = 2 ended without a
\* single iteration
C31_PlusOneLoopNeverRan ==
    /\ tokens = RangeExprSrc([pre |-> <<>>, post |-> <<Tok("Plus"), TInt(1)>>])
    /\ pc = "done"
    /\ VM_global("b") = VInt(0)
    /\ VM_global("i") = VNull
    /\ VM_global("_iter_list") = VNull

\* the program is one of ConstSrc
InConstSrc ==
    /\ Len(tokens) > 2 /\ tokens[1] \in {k_constant, k_mutable} /\ tokens[2] = TIdent("c")
    /\ tokens[Len(tokens) - 4] = TIdent("last")

\* the instruction that pushes the first value of c under a declaration
DeclaredPush(decl) ==
    IF Len(decl) = 5 THEN PushI(5) ELSE IF decl[1] = k_constant THEN PushI(0) ELSE PushNull

\* the value of c after a rebinding, given its value before
Rebound(rebinding, before) ==
    IF rebinding = <<>> THEN before
    ELSE IF rebinding = <<k_mutable, TIdent("c"), p_semi>> THEN VNull
    ELSE IF rebinding[1] = k_iterate /\ rebinding[5] = k_to THEN VInt(3)
    ELSE VInt(6)

\* C32: a constant declaration compiles to the initializer and a Store by
\* name, as a mutable declaration with an initializer does; the initializer
\* is integer 0 when the constant has none, where a mutable without one
\* stores null; and the name is not protected: a later assignment,
\* declaration, function parameter or loop variable of the same name
\* replaces the value.
C32_ConstantIsAnOrdinaryBinding ==
    /\ (InConstSrc /\ pc \in {"run", "post", "done"})
       => \A decl \in ConstDecls :
             SubSeq(tokens, 1, Len(decl)) = decl /\ tokens[Len(decl) + 1] = TIdent("seen")
             => /\ code[starts[1] + 1] = DeclaredPush(decl)
                /\ code[starts[1] + 2] = Store("c")
                /\ starts[2] = starts[1] + 2
                /\ program[1].s = (IF decl[1] = k_constant THEN "Const" ELSE "Mutable")
    /\ (InConstSrc /\ pc = "done")
       => \A decl \in ConstDecls, rebinding \in Rebindings :
             tokens = ConstSrc(decl, rebinding)
             => /\ VM_global("seen")
                      = (IF Len(decl) = 5 THEN VInt(5)
                         ELSE IF decl[1] = k_constant THEN VInt(0) ELSE VNull)
                /\ VM_global("last") = Rebound(rebinding, VM_global("seen"))
                /\ VM_global("c") = VM_global("last")
                /\ ~diag

\* `constant c = 5;` was read as 5 and, after `c = 6;`, as 6
C32_ConstantReassigned ==
    /\ tokens = ConstSrc(<<k_constant, TIdent("c"), p_eq, TInt(5), p_semi>>,
                         AssignSrc("c", <<TInt(6)>>))
    /\ pc = "done"
    /\ VM_global("seen") = VInt(5)
    /\ VM_global("last") = VInt(6)

\* the program is one of EqSrc
InEqSrc == Len(tokens) > 5 /\ tokens[1] = TIdent("first")

\* the value of an operand of EqOperands
OperandValue(x) ==
    CASE x = <<p_minus, TInt(1)>> -> VInt(-1)
      [] x = <<p_lbracket, TInt(1), p_rbracket>> -> VList(<<VInt(1)>>)
      [] Len(x) = 1 /\ x[1].k = "Int" -> VInt(x[1].n)
      [] Len(x) = 1 /\ x[1].k = "Float" -> VFloat(x[1].num, x[1].den)
      [] Len(x) = 1 /\ x[1].k = "Str" -> VStr(x[1].s)
      [] Len(x) = 1 /\ x[1].k = "True" -> VBool(TRUE)
      [] Len(x) = 1 /\ x[1].k = "Ident" -> VNull

\* C33: Eq and Neq never fail and compare the variant as well as the
\* payload: values of different variants are unequal, integer 1 and float
\* 1.0 included; Power pushes a float, so `2 ** 3 == 8` is false while
\* `2 ** 3 <= 8`, `2 ** 3 >= 8` and `2 ** 3 == 8.0` are true.
C33_EqualityComparesVariantAndPayload ==
    /\ [][(Running /\ Instr.op \in {"Eq", "Neq"})
          => /\ pc' = "run" /\ ip' = ip + 1
             /\ Len(stack') = Len(stack) - 1
             /\ VM_top(stack') \in {VBool(TRUE), VBool(FALSE)}
             /\ (VM_top(stack).t # VM_top(VM_rest(stack)).t)
                => VM_top(stack') = VBool(Instr.op = "Neq")
             /\ (VM_top(stack).t = VM_top(VM_rest(stack)).t
                 /\ VM_top(stack).t \in {"Int", "Str", "Bool", "Null"})
                => VM_top(stack') = VBool((VM_top(stack) = VM_top(VM_rest(stack)))
                                          <=> Instr.op = "Eq")]_vars
    /\ [][(Running /\ Instr.op = "Power") => VM_top(stack').t = "Float"]_vars
    /\ []((InEqSrc /\ pc = "done")
          => \A op \in EqOps, x \in EqOperands, y \in EqOperands :
                tokens = EqSrc(op, x, y)
                => /\ VM_global("r") = VBool((OperandValue(x) = OperandValue(y)) <=> op = "EqEq")
                   /\ OperandValue(x).t # OperandValue(y).t
                      => VM_global("r") = VBool(op = "BangEq")
                   /\ VM_global("after") = VInt(8)
                   /\ ~diag)
    /\ []((tokens = PowerEqSrc /\ pc = "done")
          => /\ VM_global("p") = VFloat(8, 1)
             /\ VM_global("e") = VBool(FALSE)
             /\ VM_global("n") = VBool(TRUE)
             /\ VM_global("l") = VBool(TRUE)
             /\ VM_global("g") = VBool(TRUE)
             /\ VM_global("f") = VBool(TRUE))

\* `1 == 1.0` gave false
C33_IntegerDiffersFromEqualFloat ==
    /\ tokens = EqSrc("EqEq", <<TInt(1)>>, <<TFloat(10, 10)>>) /\ pc = "done"
    /\ VM_global("r") = VBool(FALSE)

=============================================================================
